---- MODULE Spec2Model ----
(***************************************************************************)
(* cctop server: usage store, summary store, summary debouncer and the     *)
(* sync handler that drives them.                                          *)
(*                                                                         *)
(* Modelling conventions                                                   *)
(*  - A time.Time is a record [y, m, d, s]: civil date and second of the   *)
(*    day.  All times are whole seconds of one zone (the CLI formats its   *)
(*    timestamps with time.RFC3339 from UTC log entries, and the server's  *)
(*    time.Local is taken to be that zone).                                *)
(*  - Formatted keys are modelled by what the layout keeps: "2006-01-02"   *)
(*    keeps <<y, m, d>>, "2006-01" keeps <<y, m>> and "Jan 2" keeps only   *)
(*    <<m, d>>.                                                            *)
(*  - Cost is counted in units of 1e-8 USD so that it stays an integer.    *)
(*  - A database/sql transaction is a private write buffer that becomes    *)
(*    visible at Commit; SQLite admits one writing transaction at a time.  *)
(***************************************************************************)
EXTENDS Integers, Sequences, FiniteSets, TLC

(***************************************************************************)
(* Bounds of the model                                                     *)
(***************************************************************************)
\* number of sync requests served in one behaviour of Spec
MaxSyncs == 2
\* number of sync requests served in one behaviour of SpecDebounce
MaxBurst == 3
\* number of storage errors injected in one behaviour
MaxFailures == 1
\* number of billing-day changes in one behaviour
MaxRebuilds == 1
\* number of billing days tried below 1 and above 31
ExtraBillingDays == 3

(***************************************************************************)
(* Calendar (Go's time package, as far as the code uses it)                *)
(***************************************************************************)
SecondsPerDay == 86400

IsLeap(y) == (y % 4 = 0 /\ y % 100 # 0) \/ y % 400 = 0

\* time.Date(year, month+1, 0, ...).Day(): the last day of the month
LastDay(y, m) ==
    IF m = 2 THEN (IF IsLeap(y) THEN 29 ELSE 28)
    ELSE IF m \in {4, 6, 9, 11} THEN 30 ELSE 31

\* time.Date(y, m, d, 0, 0, 0, 0, loc) with Go's normalisation of month 13
\* (January of the next year); the code only passes days that exist
Date(y, m, d) ==
    IF m > 12 THEN [y |-> y + 1, m |-> m - 12, d |-> d, s |-> 0]
    ELSE [y |-> y, m |-> m, d |-> d, s |-> 0]

\* a time left as it is
SubSecondNever(t) == t

\* t.Add(-time.Second)
SubSecond(t) ==
    IF t.s > 0 THEN [t EXCEPT !.s = @ - 1]
    ELSE IF t.d > 1 THEN [t EXCEPT !.d = @ - 1, !.s = SecondsPerDay - 1]
    ELSE IF t.m > 1
         THEN [y |-> t.y, m |-> t.m - 1, d |-> LastDay(t.y, t.m - 1),
               s |-> SecondsPerDay - 1]
         ELSE [y |-> t.y - 1, m |-> 12, d |-> 31, s |-> SecondsPerDay - 1]

\* dayStart.Add(24*time.Hour - time.Second)
EndOfDay(t) == [t EXCEPT !.s = SecondsPerDay - 1]

\* the instant a time denotes, for comparisons (seconds since 1 Jan 2022)
RECURSIVE DaysBeforeYear(_)
DaysBeforeYear(y) ==
    IF y <= 2022 THEN 0
    ELSE DaysBeforeYear(y - 1) + (IF IsLeap(y - 1) THEN 366 ELSE 365)

RECURSIVE DaysBeforeMonth(_, _)
DaysBeforeMonth(y, m) ==
    IF m <= 1 THEN 0 ELSE DaysBeforeMonth(y, m - 1) + LastDay(y, m - 1)

Unix(t) ==
    (DaysBeforeYear(t.y) + DaysBeforeMonth(t.y, t.m) + (t.d - 1)) * SecondsPerDay
    + t.s

\* t.Format("2006-01-02"), t.Format("2006-01"), t.Format("Jan 2")
DayKey(t) == <<t.y, t.m, t.d>>
MonthKey(t) == <<t.y, t.m>>

\* time.ParseInLocation("2006-01-02", dayKey, time.Local)
ParseDay(k) == Date(k[1], k[2], k[3])
\* time.ParseInLocation("2006-01", monthKey, time.Local)
ParseMonth(k) == Date(k[1], k[2], 1)

\* clampDay: the billing day clamped to the last day of the given month
clampDayNever(year, month, day) == day

clampDay(year, month, day) ==
    IF day > LastDay(year, month) THEN LastDay(year, month) ELSE day

\* the billing cycle a time falls in: its start, end and its key.  The key is
\* cycleStart.Format("Jan 2") + " – " + cycleEnd.Format("Jan 2"): no year.
CycleStartThisMonth(t, billingDay) ==
    Date(t.y, t.m, clampDay(t.y, t.m, billingDay))

CycleStartOf(t, billingDay) ==
    IF t.d >= clampDay(t.y, t.m, billingDay)
    THEN Date(t.y, t.m, clampDay(t.y, t.m, billingDay))
    ELSE LET prevMonth == IF t.m - 1 < 1 THEN 12 ELSE t.m - 1
             prevYear == IF t.m - 1 < 1 THEN t.y - 1 ELSE t.y
         IN Date(prevYear, prevMonth, clampDay(prevYear, prevMonth, billingDay))

\* the end of the month the cycle starts in
CycleEndOfMonth(cycleStart, billingDay) ==
    EndOfDay(Date(cycleStart.y, cycleStart.m, LastDay(cycleStart.y, cycleStart.m)))

CycleEndOf(cycleStart, billingDay) ==
    LET nextMonth == IF cycleStart.m + 1 > 12 THEN 1 ELSE cycleStart.m + 1
        nextYear == IF cycleStart.m + 1 > 12 THEN cycleStart.y + 1 ELSE cycleStart.y
    IN SubSecond(Date(nextYear, nextMonth, clampDay(nextYear, nextMonth, billingDay)))

CycleKey(cycleStart, cycleEnd) ==
    <<cycleStart.m, cycleStart.d, cycleEnd.m, cycleEnd.d>>

\* the check without the upper limit
BillingEnabledPositive(billingDay) == billingDay > 0

BillingEnabled(billingDay) == billingDay > 0 /\ billingDay <= 31

(***************************************************************************)
(* Inputs: users, clients and the usage records clients may send           *)
(***************************************************************************)
Users == {"u1", "u2"}
Handlers == {"h1", "h2"}

\* users.billing_day at start: u1 bills on the 15th, u2 has billing disabled
InitialBillingDay == [u \in Users |-> IF u = "u1" THEN 15 ELSE 0]

ClientOf(u) == IF u = "u1" THEN "c1" ELSE "c2"

At(y, m, d, s) == [y |-> y, m |-> m, d |-> d, s |-> s]

\* the server's wall clock takes these values in turn
Clock == << At(2024, 3, 10, 43200), At(2024, 4, 16, 43200) >>

\* database.UsageRecord as the handler builds it
Record(u, t, session, in, out, cc, cr) ==
    [UserID |-> u, ClientID |-> ClientOf(u), Timestamp |-> t,
     SessionID |-> session, Model |-> "claude-sonnet-4-5",
     InputTokens |-> in, OutputTokens |-> out,
     CacheCreationTokens |-> cc, CacheReadTokens |-> cr]

\* a day of the cycle "Jan 15 – Feb 14" of 2023
rOld == Record("u1", At(2023, 1, 20, 100), "s1", 1, 1, 0, 0)
\* a later event of the same day
rLate == Record("u1", At(2023, 1, 20, 200), "s1", 2, 0, 1, 0)
\* the natural key of rLate with other counts
rLateDup == Record("u1", At(2023, 1, 20, 200), "s1", 3, 0, 0, 0)
\* the same days one year later: cycle "Jan 15 – Feb 14" of 2024
rNext == Record("u1", At(2024, 1, 20, 100), "s2", 4, 0, 0, 1)
\* an event of the day the clock starts in
rToday == Record("u1", At(2024, 3, 10, 100), "s3", 0, 5, 0, 0)
\* an event of the other user
rOther == Record("u2", At(2023, 1, 20, 100), "s1", 1, 2, 0, 0)

\* the batches a sync request of a user may carry
Batches(u) ==
    IF u = "u1"
    THEN { <<rOld>>, <<rLate, rLateDup>>, <<rNext, rToday>> }
    ELSE { <<rOther>> }

(***************************************************************************)
(* Pricing                                                                 *)
(***************************************************************************)
\* pricing.GetPricing(model, true): embedded prices per token, in 1e-8 USD
GetPricing(modelName) ==
    [InputCostPerToken |-> 300, OutputCostPerToken |-> 1500,
     CacheCreationCostPerToken |-> 375, CacheReadCostPerToken |-> 30]

CalculateCost(r, pricing) ==
    r.InputTokens * pricing.InputCostPerToken
    + r.OutputTokens * pricing.OutputCostPerToken
    + r.CacheCreationTokens * pricing.CacheCreationCostPerToken
    + r.CacheReadTokens * pricing.CacheReadCostPerToken

(***************************************************************************)
(* Tables                                                                  *)
(***************************************************************************)
\* UNIQUE(user_id, client_id, timestamp, session_id, model)
NaturalKey(row) ==
    <<row.user_id, row.client_id, row.timestamp, row.session_id, row.model>>

\* the usage_records row an INSERT of r would write
UsageRow(r) ==
    [user_id |-> r.UserID, client_id |-> r.ClientID, timestamp |-> r.Timestamp,
     session_id |-> r.SessionID, model |-> r.Model,
     input_tokens |-> r.InputTokens, output_tokens |-> r.OutputTokens,
     cache_creation_tokens |-> r.CacheCreationTokens,
     cache_read_tokens |-> r.CacheReadTokens,
     cost |-> CalculateCost(r, GetPricing(r.Model))]

Keys(rows) == { NaturalKey(row) : row \in rows }

\* a plain INSERT into a table without the UNIQUE constraint
InsertAlways(rows, r) == rows \cup {UsageRow(r)}

\* INSERT OR IGNORE INTO usage_records: the table after the statement
InsertOrIgnore(rows, r) ==
    IF NaturalKey(UsageRow(r)) \in Keys(rows) THEN rows ELSE rows \cup {UsageRow(r)}

RowsAffectedCountsIgnored(rows, r) == 1

\* result.RowsAffected() of that statement
RowsAffected(rows, r) ==
    IF NaturalKey(UsageRow(r)) \in Keys(rows) THEN 0 ELSE 1

PrimaryKeyWithoutUser(row) == <<row.period_type, row.period_key>>

\* PRIMARY KEY (user_id, period_type, period_key)
PrimaryKey(row) == <<row.user_id, row.period_type, row.period_key>>

RECURSIVE SumOf(_, _)
SumOf(rows, field) ==
    IF rows = {} THEN 0
    ELSE LET row == CHOOSE x \in rows : TRUE
         IN row[field] + SumOf(rows \ {row}, field)

\* SELECT COALESCE(SUM(input_tokens), 0), ... over the selected rows
Aggregate(rows) ==
    [input_tokens |-> SumOf(rows, "input_tokens"),
     output_tokens |-> SumOf(rows, "output_tokens"),
     cache_creation_tokens |-> SumOf(rows, "cache_creation_tokens"),
     cache_read_tokens |-> SumOf(rows, "cache_read_tokens"),
     cost |-> SumOf(rows, "cost")]

\* WHERE user_id = ? AND DATE(timestamp) = ?
RowsOfDay(rows, userID, dayKey) ==
    { x \in rows : x.user_id = userID /\ DayKey(x.timestamp) = dayKey }
\* WHERE user_id = ? AND strftime('%Y-%m', timestamp) = ?
RowsOfMonth(rows, userID, monthKey) ==
    { x \in rows : x.user_id = userID /\ MonthKey(x.timestamp) = monthKey }
\* WHERE user_id = ? AND timestamp >= ? AND timestamp <= ?
RowsBetween(rows, userID, start, end) ==
    { x \in rows : /\ x.user_id = userID
                   /\ Unix(x.timestamp) >= Unix(start)
                   /\ Unix(x.timestamp) <= Unix(end) }

(***************************************************************************)
(* UpdateSummaries: affected periods and upserts                           *)
(***************************************************************************)
DayPeriod(t) ==
    [period_type |-> "day", period_key |-> DayKey(t),
     period_start |-> ParseDay(DayKey(t)),
     period_end |-> EndOfDay(ParseDay(DayKey(t)))]

MonthPeriod(t) ==
    [period_type |-> "month", period_key |-> MonthKey(t),
     period_start |-> Date(ParseMonth(MonthKey(t)).y, ParseMonth(MonthKey(t)).m, 1),
     period_end |->
         SubSecond(Date(ParseMonth(MonthKey(t)).y, ParseMonth(MonthKey(t)).m + 1, 1))]

CyclePeriod(t, billingDay) ==
    LET cycleStart == CycleStartOf(t, billingDay)
        cycleEnd == CycleEndOf(cycleStart, billingDay)
    IN [period_type |-> "cycle", period_key |-> CycleKey(cycleStart, cycleEnd),
        period_start |-> cycleStart, period_end |-> cycleEnd]

\* the days of the records and the day of the first event ever
AffectedDaysAndFirst(records) ==
    { DayPeriod(records[i].Timestamp) : i \in 1..Len(records) }
        \cup { DayPeriod(rOld.Timestamp) }

\* affectedDays, affectedMonths: the distinct keys of the records
AffectedDays(records) ==
    { DayPeriod(records[i].Timestamp) : i \in 1..Len(records) }
AffectedMonths(records) ==
    { MonthPeriod(records[i].Timestamp) : i \in 1..Len(records) }
\* affectedCycles[cycleKey] = {cycleStart, cycleEnd}: a map, so the last
\* record with a key decides the bounds kept under that key
AffectedCycles(billingDay, records) ==
    IF ~BillingEnabled(billingDay) THEN {}
    ELSE LET P(i) == CyclePeriod(records[i].Timestamp, billingDay)
         IN { P(i) : i \in { k \in 1..Len(records) :
                    \A j \in (k + 1)..Len(records) :
                        P(j).period_key # P(k).period_key } }

Affected(billingDay, records) ==
    AffectedDays(records) \cup AffectedMonths(records)
        \cup AffectedCycles(billingDay, records)

\* the three loops run in this order; each ranges over a Go map
LoopRank(p) ==
    IF p.period_type = "day" THEN 1 ELSE IF p.period_type = "month" THEN 2 ELSE 3
NextPeriods(todo) ==
    { p \in todo : \A q \in todo : LoopRank(p) <= LoopRank(q) }

\* the re-sum query of a period over usage_records
Resum(rows, userID, p) ==
    IF p.period_type = "day" THEN Aggregate(RowsOfDay(rows, userID, p.period_key))
    ELSE IF p.period_type = "month"
         THEN Aggregate(RowsOfMonth(rows, userID, p.period_key))
         ELSE Aggregate(RowsBetween(rows, userID, p.period_start, p.period_end))

SummaryRow(userID, p, agg) ==
    [user_id |-> userID, period_type |-> p.period_type, period_key |-> p.period_key,
     period_start |-> p.period_start, period_end |-> p.period_end,
     input_tokens |-> agg.input_tokens, output_tokens |-> agg.output_tokens,
     cache_creation_tokens |-> agg.cache_creation_tokens,
     cache_read_tokens |-> agg.cache_read_tokens, cost |-> agg.cost]

\* INSERT INTO usage_summary ... ON CONFLICT(user_id, period_type, period_key)
\* DO UPDATE SET the four counts and the cost (not period_start, period_end)
Upsert(table, row) ==
    IF \E x \in table : PrimaryKey(x) = PrimaryKey(row)
    THEN { IF PrimaryKey(x) = PrimaryKey(row)
           THEN [x EXCEPT !.input_tokens = row.input_tokens,
                          !.output_tokens = row.output_tokens,
                          !.cache_creation_tokens = row.cache_creation_tokens,
                          !.cache_read_tokens = row.cache_read_tokens,
                          !.cost = row.cost]
           ELSE x : x \in table }
    ELSE table \cup {row}

(***************************************************************************)
(* Transactions                                                            *)
(***************************************************************************)
TxWriteThrough(committed, txView) == txView

\* what the other connections see of a table while a transaction that has
\* written txView is open: the committed table (tx, err := db.Begin())
TxWrite(committed, txView) == committed

\* tx.Commit()
TxCommit(committed, txView) == txView

TxRollbackKeepsWrites(committed, txView) == txView

\* defer tx.Rollback() after an error
TxRollback(committed, txView) == committed

(***************************************************************************)
(* State                                                                   *)
(***************************************************************************)
VARIABLES
    mode,           \* how the sync handler requests the summary update
    rebuild,        \* the UpdateBillingDay request being served, if any
    call,           \* the last call of a calendar function: its arguments
                    \* and what it returned
    clock,          \* index into Clock: time.Now()
    billing_day,    \* users.billing_day
    last_sync_at,   \* clients.last_sync_at of each user's client: 0 is NULL,
                    \* k > 0 is Clock[k]
    usage_records,  \* committed rows of usage_records
    usage_summary,  \* committed rows of usage_summary
    writer,         \* TRUE while a transaction holds SQLite's write lock
    req,            \* the sync request each handler goroutine is serving
    response,       \* the last SyncResponse / error of each handler
    pending,        \* SummaryDebouncer.pending
    timers,         \* armed time.AfterFunc callbacks
    jobs,           \* UpdateSummaries calls in progress, by request number
    nSyncs,         \* sync requests accepted so far
    faults,         \* storage errors so far: the operation that failed, its
                    \* request, its records and the statements it had executed
    schedLog,       \* history: the Schedule calls, in the order of d.mu
    burst,          \* history: the Schedule calls behind each pending record
    updCalls,       \* history: the UpdateSummaries calls made by flush, each
                    \* with the timer that made it, the Schedule calls whose
                    \* record it took and the length of schedLog at that time
    overlapped      \* history: two UpdateSummaries calls for one user have
                    \* been in progress at once

vars == << mode, rebuild, call, clock, billing_day, last_sync_at, usage_records, usage_summary,
           writer, req, response, pending, timers, jobs, nSyncs, faults,
           schedLog, burst, updCalls, overlapped >>

Now == Clock[clock]

NoRequest ==
    [pc |-> "idle", n |-> 0, userID |-> "", billingDay |-> 0, records |-> <<>>,
     i |-> 0, view |-> {}, locked |-> FALSE, inserted |-> 0]

NoPending == [generation |-> 0, billingDay |-> 0, records |-> <<>>]

NoResponse == [status |-> "none", inserted |-> 0]

\* no UpdateBillingDay request yet; n counts the requests
NoRebuild == [pc |-> "idle", n |-> 0, userID |-> "", billingDay |-> 0, cycles |-> {}]

\* the state after Open, Migrate and NewSummaryDebouncer, with one user row
\* per user
NoCall == [fn |-> "none"]

Start ==
    /\ rebuild = NoRebuild
    /\ call = NoCall
    /\ clock = 1
    /\ billing_day = InitialBillingDay
    /\ last_sync_at = [u \in Users |-> 0]
    /\ usage_records = {}
    /\ usage_summary = {}
    /\ writer = FALSE
    /\ req = [h \in Handlers |-> NoRequest]
    /\ response = [h \in Handlers |-> NoResponse]
    /\ pending = [u \in Users |-> NoPending]
    /\ timers = {}
    /\ jobs = <<>>
    /\ nSyncs = 0
    /\ faults = <<>>
    /\ schedLog = <<>>
    /\ burst = [u \in Users |-> <<>>]
    /\ updCalls = <<>>
    /\ overlapped = FALSE

\* the handler calls UpdateSummaries itself
Init == mode = "direct" /\ Start

(***************************************************************************)
(* The clock                                                               *)
(***************************************************************************)
Tick ==
    /\ clock < Len(Clock)
    /\ clock' = clock + 1
    /\ UNCHANGED << overlapped, mode, call, rebuild, billing_day, last_sync_at, usage_records, usage_summary,
                    writer, req, response, pending, timers, jobs, nSyncs, faults,
                    schedLog, burst, updCalls >>

(***************************************************************************)
(* Handler.APISync up to InsertUsageRecords                                *)
(***************************************************************************)
\* a request arrives: the middleware has loaded the user row, the handler has
\* built the records.  Handler goroutines are interchangeable: h2 serves a
\* request only while h1 is busy.
APISyncBegin(h, u, records) ==
    /\ req[h].pc = "idle"
    /\ h = "h1" \/ req["h1"].pc # "idle"
    /\ nSyncs' = nSyncs + 1
    /\ req' = [req EXCEPT ![h] =
                 [pc |-> "insert", n |-> nSyncs + 1, userID |-> u,
                  billingDay |-> billing_day[u], records |-> records,
                  i |-> 1, view |-> {}, locked |-> FALSE, inserted |-> 0]]
    /\ response' = [response EXCEPT ![h] = NoResponse]
    /\ UNCHANGED << overlapped, mode, call, rebuild, clock, billing_day, last_sync_at, usage_records,
                    usage_summary, writer, pending, timers, jobs, faults,
                    schedLog, burst, updCalls >>

\* one stmt.Exec of the loop of InsertUsageRecords; the first one takes the
\* write lock
InsertExec(h) ==
    LET r == req[h]
        cur == IF r.locked THEN r.view ELSE usage_records
        next == InsertOrIgnore(cur, r.records[r.i])
    IN /\ r.pc = "insert"
       /\ r.locked \/ ~writer
       /\ writer' = TRUE
       /\ req' = [req EXCEPT ![h] =
                    [r EXCEPT !.i = @ + 1, !.view = next, !.locked = TRUE,
                              !.inserted = @ + RowsAffected(cur, r.records[r.i]),
                              !.pc = IF r.i = Len(r.records) THEN "commit"
                                     ELSE "insert"]]
       /\ usage_records' = TxWrite(usage_records, next)
       /\ UNCHANGED << overlapped, mode, call, rebuild, clock, billing_day, last_sync_at, usage_summary,
                       response, pending, timers, jobs, nSyncs, faults,
                       schedLog, burst, updCalls >>

\* return inserted, tx.Commit()
InsertCommit(h) ==
    LET r == req[h]
    IN /\ r.pc = "commit"
       /\ usage_records' = TxCommit(usage_records, r.view)
       /\ writer' = FALSE
       /\ req' = [req EXCEPT ![h] = [r EXCEPT !.pc = "summaries", !.view = {},
                                              !.locked = FALSE]]
       /\ UNCHANGED << overlapped, mode, call, rebuild, clock, billing_day, last_sync_at, usage_summary,
                       response, pending, timers, jobs, nSyncs, faults,
                       schedLog, burst, updCalls >>

LastSyncAdvancedOnError(lastSync, now) == now

\* clients.last_sync_at after a failed insert: the handler returns before
\* UpdateClientLastSync
LastSyncAfterInsertError(lastSync, now) == lastSync

\* db.Begin, tx.Prepare, a stmt.Exec or tx.Commit returns an error:
\* InsertUsageRecords returns (0, err) and the deferred Rollback runs; the
\* handler answers 500 and returns before UpdateClientLastSync
InsertFail(h) ==
    LET r == req[h]
    IN /\ r.pc \in {"insert", "commit"}
       /\ Len(faults) < MaxFailures
       /\ faults' = Append(faults, [op |-> "insert", n |-> r.n, done |-> r.i - 1,
                                     records |-> r.records])
       /\ last_sync_at' = [last_sync_at EXCEPT ![r.userID] =
                              LastSyncAfterInsertError(@, clock)]
       /\ usage_records' = TxRollback(usage_records, r.view)
       /\ writer' = IF r.locked THEN FALSE ELSE writer
       /\ req' = [req EXCEPT ![h] = NoRequest]
       /\ response' = [response EXCEPT ![h] = [status |-> "error", inserted |-> 0]]
       /\ UNCHANGED << overlapped, mode, call, rebuild, clock, billing_day, usage_summary,
                       pending, timers, jobs, nSyncs, schedLog, burst, updCalls >>

(***************************************************************************)
(* SummaryDebouncer                                                        *)
(***************************************************************************)
Exists(p) == p.generation > 0

ScheduleExistingOverwrite(p, billingDay, records) ==
    [generation |-> p.generation + 1, billingDay |-> billingDay,
     records |-> records]

ScheduleExistingKeepAnchor(p, billingDay, records) ==
    [generation |-> p.generation + 1, billingDay |-> p.billingDay,
     records |-> p.records \o records]

ScheduleExistingSameGeneration(p, billingDay, records) ==
    [generation |-> p.generation, billingDay |-> billingDay,
     records |-> p.records \o records]

\* Schedule, pending record exists: append, replace the anchor, bump generation
ScheduleExisting(p, billingDay, records) ==
    [generation |-> p.generation + 1, billingDay |-> billingDay,
     records |-> p.records \o records]

\* Schedule, no pending record
ScheduleNew(billingDay, records) ==
    [generation |-> 1, billingDay |-> billingDay, records |-> records]

FlushMatchesNever(p, generation) == FALSE

FlushMatchesInverted(p, generation) == Exists(p) /\ p.generation # generation

\* flush: the pending record is there and carries the timer's generation
FlushMatches(p, generation) == Exists(p) /\ p.generation = generation

\* the UpdateSummaries calls in progress: jobs is a function from the numbers
\* of the requests they stem from
Running == DOMAIN jobs
Started(n, job) == [k \in Running \cup {n} |-> IF k = n THEN job ELSE jobs[k]]
Ended(n) == [k \in Running \ {n} |-> jobs[k]]

\* flush would unlock after UpdateSummaries has returned
MuHeldWhileUpdating == \E k \in Running : jobs[k].handler = ""

\* d.mu between two steps: Schedule locks and unlocks within its step
\* (defer d.mu.Unlock()), flush unlocks before it calls UpdateSummaries
MuHeld == FALSE

\* Schedule(userID, billingDay, records), under d.mu; n names the call
Schedule(n, userID, billingDay, records) ==
    LET p == IF Exists(pending[userID])
             THEN ScheduleExisting(pending[userID], billingDay, records)
             ELSE ScheduleNew(billingDay, records)
    IN /\ ~MuHeld
       /\ pending' = [pending EXCEPT ![userID] = p]
       /\ timers' = timers \cup
              {[userID |-> userID, generation |-> p.generation, sid |-> n]}
       /\ schedLog' = Append(schedLog,
              [sid |-> n, userID |-> userID, billingDay |-> billingDay,
               records |-> records])
       /\ burst' = [burst EXCEPT ![userID] = Append(@, n)]

\* an UpdateSummaries call for userID starts while another one is running,
\* or two calls for one user have run at once before
Overlapping(userID) ==
    overlapped \/ \E k \in Running : jobs[k].userID = userID

\* UpdateSummaries is entered with records: the affected periods are
\* collected and the transaction begins
StartJob(h, userID, billingDay, records) ==
    [handler |-> h, userID |-> userID, billingDay |-> billingDay,
     records |-> records, todo |-> Affected(billingDay, records),
     view |-> {}, locked |-> FALSE]

\* a timer fires and runs flush(userID, generation) up to d.mu.Unlock()
Flush(t) ==
    /\ t \in timers
    /\ ~MuHeld
    /\ timers' = timers \ {t}
    /\ IF FlushMatches(pending[t.userID], t.generation)
       THEN /\ pending' = [pending EXCEPT ![t.userID] = NoPending]
            /\ burst' = [burst EXCEPT ![t.userID] = <<>>]
            /\ jobs' = Started(t.sid, StartJob("", t.userID,
                              pending[t.userID].billingDay,
                              pending[t.userID].records))
            /\ overlapped' = Overlapping(t.userID)
            /\ updCalls' = Append(updCalls,
                   [userID |-> t.userID,
                    billingDay |-> pending[t.userID].billingDay,
                    records |-> pending[t.userID].records,
                    timer |-> t.sid, burst |-> burst[t.userID],
                    at |-> Len(schedLog)])
       ELSE UNCHANGED << pending, burst, jobs, updCalls, overlapped >>
    /\ UNCHANGED << mode, call, rebuild, clock, billing_day, last_sync_at, usage_records,
                    usage_summary, writer, req, response, nSyncs, faults,
                    schedLog >>

(***************************************************************************)
(* Handler.APISync after InsertUsageRecords                                *)
(***************************************************************************)
ShouldUpdateAlways(inserted) == TRUE

\* if inserted > 0 { ... }
ShouldUpdate(inserted) == inserted > 0

\* if inserted > 0: request the summary update, either by calling
\* UpdateSummaries or by handing the records to the debouncer
APISyncSummaries(h) ==
    LET r == req[h]
    IN /\ r.pc = "summaries"
       /\ IF ShouldUpdate(r.inserted) /\ mode = "direct"
          THEN /\ jobs' = Started(r.n, StartJob(h, r.userID, r.billingDay,
                                                 r.records))
               /\ overlapped' = Overlapping(r.userID)
               /\ req' = [req EXCEPT ![h] = [r EXCEPT !.pc = "update"]]
               /\ UNCHANGED << pending, timers, schedLog, burst >>
          ELSE IF ShouldUpdate(r.inserted)
          THEN /\ Schedule(r.n, r.userID, r.billingDay, r.records)
               /\ req' = [req EXCEPT ![h] = [r EXCEPT !.pc = "lastsync"]]
               /\ UNCHANGED << jobs, overlapped >>
          ELSE /\ req' = [req EXCEPT ![h] = [r EXCEPT !.pc = "lastsync"]]
               /\ UNCHANGED << pending, timers, schedLog, burst, jobs,
                               overlapped >>
       /\ UNCHANGED << mode, call, rebuild, clock, billing_day, last_sync_at, usage_records,
                       usage_summary, writer, response, nSyncs, faults, updCalls >>

\* UpdateClientLastSync(clientID, time.Now()) and the SyncResponse
APISyncFinish(h) ==
    LET r == req[h]
    IN /\ r.pc = "lastsync"
       /\ ~writer
       /\ last_sync_at' = [last_sync_at EXCEPT ![r.userID] = clock]
       /\ response' = [response EXCEPT ![h] =
                         [status |-> "ok", inserted |-> r.inserted]]
       /\ req' = [req EXCEPT ![h] = NoRequest]
       /\ UNCHANGED << overlapped, mode, call, rebuild, clock, billing_day, usage_records, usage_summary,
                       writer, pending, timers, jobs, nSyncs, faults, schedLog,
                       burst, updCalls >>

(***************************************************************************)
(* UpdateSummaries                                                         *)
(***************************************************************************)
\* the caller of UpdateSummaries goes on: APISync ignores the error, and so
\* does flush
Returned(job) ==
    IF job.handler = "" THEN UNCHANGED req
    ELSE req' = [req EXCEPT ![job.handler] = [@ EXCEPT !.pc = "lastsync"]]

\* if len(records) == 0 { return nil }
NoRecords(records) == Len(records) = 0

\* UpdateSummaries returns nil before it opens a transaction
UpdateSummariesReturn(n) ==
    /\ NoRecords(jobs[n].records)
    /\ jobs' = Ended(n)
    /\ Returned(jobs[n])
    /\ UNCHANGED << overlapped, mode, call, rebuild, clock, billing_day, last_sync_at, usage_records,
                    usage_summary, writer, response, pending, timers, nSyncs,
                    faults, schedLog, burst, updCalls >>

\* one turn of a loop: the re-sum query of a period and its upsert; the
\* first upsert takes the write lock
UpdateSummariesExec(n) ==
    LET job == jobs[n]
        cur == IF job.locked THEN job.view ELSE usage_summary
    IN /\ job.todo # {}
       /\ job.locked \/ ~writer
       /\ writer' = TRUE
       /\ \E p \in NextPeriods(job.todo) :
            LET next == Upsert(cur, SummaryRow(job.userID, p,
                                   Resum(usage_records, job.userID, p)))
            IN /\ jobs' = [jobs EXCEPT ![n] =
                             [job EXCEPT !.todo = @ \ {p}, !.view = next,
                                         !.locked = TRUE]]
               /\ usage_summary' = TxWrite(usage_summary, next)
       /\ UNCHANGED << overlapped, mode, call, rebuild, clock, billing_day, last_sync_at, usage_records,
                       req, response, pending, timers, nSyncs, faults, schedLog,
                       burst, updCalls >>

\* return tx.Commit()
UpdateSummariesCommit(n) ==
    LET job == jobs[n]
    IN /\ ~NoRecords(job.records)
       /\ job.todo = {}
       /\ usage_summary' = TxCommit(usage_summary, job.view)
       /\ writer' = FALSE
       /\ jobs' = Ended(n)
       /\ Returned(job)
       /\ UNCHANGED << overlapped, mode, call, rebuild, clock, billing_day, last_sync_at, usage_records,
                       response, pending, timers, nSyncs, faults, schedLog,
                       burst, updCalls >>

\* db.Begin, tx.Prepare, a re-sum query, an upsert or tx.Commit returns an
\* error: UpdateSummaries returns it and the deferred Rollback runs
UpdateSummariesFail(n) ==
    LET job == jobs[n]
    IN /\ ~NoRecords(job.records)
       /\ Len(faults) < MaxFailures
       /\ faults' = Append(faults,
              [op |-> "update", n |-> n,
               done |-> Cardinality(Affected(job.billingDay, job.records))
                        - Cardinality(job.todo),
               records |-> job.records])
       /\ usage_summary' = TxRollback(usage_summary, job.view)
       /\ writer' = IF job.locked THEN FALSE ELSE writer
       /\ jobs' = Ended(n)
       /\ Returned(job)
       /\ UNCHANGED << overlapped, mode, call, rebuild, clock, billing_day, last_sync_at, usage_records,
                       response, pending, timers, nSyncs, schedLog, burst,
                       updCalls >>

(***************************************************************************)
(* Specification                                                           *)
(***************************************************************************)
\* Spec: one user's client syncs, served by two handler goroutines that
\* call UpdateSummaries themselves, with storage errors and a clock that
\* moves on
Next ==
    \/ Tick
    \/ /\ nSyncs < MaxSyncs
       /\ \E h \in Handlers : \E records \in Batches("u1") :
              APISyncBegin(h, "u1", records)
    \/ \E h \in Handlers : InsertExec(h)
    \/ \E h \in Handlers : InsertCommit(h)
    \/ \E h \in Handlers : InsertFail(h)
    \/ \E h \in Handlers : APISyncSummaries(h)
    \/ \E h \in Handlers : APISyncFinish(h)
    \/ \E n \in Running : UpdateSummariesExec(n)
    \/ \E n \in Running : UpdateSummariesCommit(n)
    \/ \E n \in Running : UpdateSummariesFail(n)

Spec == Init /\ [][Next]_vars

\* SpecDebounce: the handler hands the records to the debouncer; a longer
\* run of syncs, one request at a time, on a storage that does not fail
InitDebounce == mode = "debounce" /\ Start

NextDebounce ==
    \/ /\ nSyncs < MaxBurst
       /\ \E records \in Batches("u1") : APISyncBegin("h1", "u1", records)
    \/ InsertExec("h1")
    \/ InsertCommit("h1")
    \/ APISyncSummaries("h1")
    \/ APISyncFinish("h1")
    \/ \E t \in timers : Flush(t)
    \/ \E n \in Running : UpdateSummariesExec(n)
    \/ \E n \in Running : UpdateSummariesCommit(n)

SpecDebounce == InitDebounce /\ [][NextDebounce]_vars

\* every armed timer fires: time.AfterFunc runs each callback in its own
\* goroutine, and d.mu is always released
FairSpecDebounce ==
    SpecDebounce /\ WF_vars(\E t \in timers : Flush(t))

(***************************************************************************)
(* Debouncer claims                                                        *)
(***************************************************************************)
\* the position of Schedule call n in schedLog (0: not made yet)
SchedIndex(n) ==
    IF \E i \in DOMAIN schedLog : schedLog[i].sid = n
    THEN CHOOSE i \in DOMAIN schedLog : schedLog[i].sid = n
    ELSE 0
Scheduled(n) == SchedIndex(n) > 0
BatchOf(n) == schedLog[SchedIndex(n)].records

RECURSIVE Concat(_)
Concat(sids) ==
    IF sids = <<>> THEN <<>> ELSE BatchOf(Head(sids)) \o Concat(Tail(sids))

Range(f) == { f[i] : i \in DOMAIN f }

\* the UpdateSummaries calls that took Schedule call n's record
CallsOf(n) == { i \in DOMAIN updCalls : n \in Range(updCalls[i].burst) }

\* C2: the Schedule calls made for a user while its pending record exists are
\* answered by one UpdateSummaries call, whose records are the concatenation
\* of their batches, in order; once every timer has fired, each Schedule call
\* has got exactly that one call.
C2_BurstCoalesced ==
    /\ \A i \in DOMAIN updCalls :
          /\ updCalls[i].burst # <<>>
          /\ updCalls[i].records = Concat(updCalls[i].burst)
    /\ \A n \in Range([i \in DOMAIN schedLog |-> schedLog[i].sid]) :
          /\ Cardinality(CallsOf(n)) <= 1
          /\ timers = {} => Cardinality(CallsOf(n)) = 1

C2_Witness ==
    \E i \in DOMAIN updCalls : Len(updCalls[i].burst) >= 2

\* the records of Schedule call n are among those of an UpdateSummaries call
Handed(n) ==
    \E i \in CallsOf(n) :
        \A k \in DOMAIN BatchOf(n) :
            \E j \in DOMAIN updCalls[i].records :
                updCalls[i].records[j] = BatchOf(n)[k]

AllHanded == \A n \in 1..MaxBurst : Scheduled(n) => Handed(n)

StaleCall(c) ==
    \E i \in (SchedIndex(c.timer) + 1)..c.at : schedLog[i].userID = c.userID

\* C4: a flush armed by a Schedule call that was followed by a later Schedule
\* call for the same user never takes a pending record and never calls
\* UpdateSummaries.

C4_StaleFlushIsNoOp ==
    \A i \in DOMAIN updCalls : ~StaleCall(updCalls[i])

(***************************************************************************)
(* Queries                                                                 *)
(***************************************************************************)
\* time.Time{} and t.IsZero()
ZeroTime == [y |-> 1, m |-> 1, d |-> 1, s |-> 0]
IsZero(t) == t = ZeroTime

\* GetBillingPeriod(billingDay) at the time now
\* the period without the check of the billing day
GetBillingPeriodUnchecked(billingDay, now) ==
    [start |-> CycleStartOf(now, billingDay),
     end |-> CycleEndOf(CycleStartOf(now, billingDay), billingDay)]

GetBillingPeriod(billingDay, now) ==
    IF billingDay <= 0 \/ billingDay > 31
    THEN [start |-> ZeroTime, end |-> ZeroTime]
    ELSE LET year == now.y
             month == now.m
             day == now.d
             prevMonth == IF month - 1 < 1 THEN 12 ELSE month - 1
             prevYear == IF month - 1 < 1 THEN year - 1 ELSE year
             periodStart ==
                 IF day >= clampDay(year, month, billingDay)
                 THEN Date(year, month, clampDay(year, month, billingDay))
                 ELSE Date(prevYear, prevMonth,
                           clampDay(prevYear, prevMonth, billingDay))
             endMonth0 == IF day < clampDay(year, month, billingDay)
                          THEN month ELSE month + 1
             endMonth == IF endMonth0 > 12 THEN 1 ELSE endMonth0
             endYear == IF endMonth0 > 12 THEN year + 1 ELSE year
         IN [start |-> periodStart,
             end |-> SubSecond(Date(endYear, endMonth,
                                    clampDay(endYear, endMonth, billingDay)))]

\* rows.Scan into an AggregatedUsage
Scan(row) ==
    [Period |-> row.period_key, InputTokens |-> row.input_tokens,
     OutputTokens |-> row.output_tokens,
     CacheCreationTokens |-> row.cache_creation_tokens,
     CacheReadTokens |-> row.cache_read_tokens, Cost |-> row.cost]

\* the AggregatedUsage of the open period, from the sums over raw records
Live(period, agg) ==
    [Period |-> period, InputTokens |-> agg.input_tokens,
     OutputTokens |-> agg.output_tokens,
     CacheCreationTokens |-> agg.cache_creation_tokens,
     CacheReadTokens |-> agg.cache_read_tokens, Cost |-> agg.cost]

\* ORDER BY ... DESC: rank gives each row the value it is ordered by
RECURSIVE OrderByDesc(_, _)
OrderByDesc(rows, rank) ==
    IF rows = {} THEN <<>>
    ELSE LET top == CHOOSE x \in rows : \A y \in rows : rank[x] >= rank[y]
         IN <<Scan(top)>> \o OrderByDesc(rows \ {top}, rank)

\* LIMIT n
Limit(list, n) == SubSeq(list, 1, IF Len(list) < n THEN Len(list) ELSE n)

\* results = append([]AggregatedUsage{current}, results...) if there's data
PrependLiveAlways(current, results) == <<current>> \o results

PrependLive(current, results) ==
    IF current.InputTokens > 0 \/ current.OutputTokens > 0
    THEN <<current>> \o results ELSE results

CompletedDaysWithToday(rows, userID, today, periodStart) ==
    { x \in rows : /\ x.user_id = userID
                   /\ x.period_type = "day"
                   /\ IsZero(periodStart)
                      \/ Unix(x.period_start) >= Unix(periodStart) }

\* WHERE user_id = ? AND period_type = 'day' AND period_key != ?
\* [AND period_start >= ?]
CompletedDays(rows, userID, today, periodStart) ==
    { x \in rows : /\ x.user_id = userID
                   /\ x.period_type = "day"
                   /\ x.period_key # today
                   /\ IsZero(periodStart)
                      \/ Unix(x.period_start) >= Unix(periodStart) }

\* WHERE user_id = ? AND period_type = 'month' AND period_key != ?
CompletedMonths(rows, userID, currentMonth) ==
    { x \in rows : /\ x.user_id = userID
                   /\ x.period_type = "month"
                   /\ x.period_key # currentMonth }

\* WHERE user_id = ? AND period_type = 'cycle' AND period_key != ?
CompletedCycles(rows, userID, currentCycleKey) ==
    { x \in rows : /\ x.user_id = userID
                   /\ x.period_type = "cycle"
                   /\ x.period_key # currentCycleKey }

GetUsageByDay(userID, billingDay) ==
    LET today == DayKey(Now)
        periodStart == GetBillingPeriod(billingDay, Now).start
        completed == CompletedDays(usage_summary, userID, today, periodStart)
        results == Limit(OrderByDesc(completed,
                      [x \in completed |-> Unix(ParseDay(x.period_key))]), 30)
        todayUsage == Live(today, Aggregate(RowsOfDay(usage_records, userID, today)))
    IN PrependLive(todayUsage, results)

GetUsageByMonth(userID) ==
    LET currentMonth == MonthKey(Now)
        completed == CompletedMonths(usage_summary, userID, currentMonth)
        results == Limit(OrderByDesc(completed,
                      [x \in completed |-> Unix(ParseMonth(x.period_key))]), 12)
        currentUsage == Live(currentMonth,
                             Aggregate(RowsOfMonth(usage_records, userID, currentMonth)))
    IN PrependLive(currentUsage, results)

GetUsageByBillingCycle(userID, billingDay) ==
    IF billingDay <= 0 \/ billingDay > 31 THEN <<>>
    ELSE LET cycle == GetBillingPeriod(billingDay, Now)
             currentCycleKey == CycleKey(cycle.start, cycle.end)
             completed == CompletedCycles(usage_summary, userID, currentCycleKey)
             results == OrderByDesc(completed,
                            [x \in completed |-> Unix(x.period_start)])
             currentUsage == Live(currentCycleKey,
                                  Aggregate(RowsBetween(usage_records, userID,
                                                        cycle.start, cycle.end)))
         IN PrependLive(currentUsage, results)

(***************************************************************************)
(* Storage claims                                                          *)
(***************************************************************************)
\* no recompute is pending or in flight for the user: no pending record in
\* the debouncer, no UpdateSummaries call running, and no handler between
\* its insert and its request for the summary update
Quiescent(u) ==
    /\ ~Exists(pending[u])
    /\ \A n \in Running : jobs[n].userID # u
    /\ \A h \in Handlers :
          req[h].userID = u => req[h].pc \notin {"summaries", "update"}

Closed(row) == Unix(row.period_end) < Unix(Now)

Counts(row) ==
    [input_tokens |-> row.input_tokens, output_tokens |-> row.output_tokens,
     cache_creation_tokens |-> row.cache_creation_tokens,
     cache_read_tokens |-> row.cache_read_tokens, cost |-> row.cost]

\* C1: for every user and every closed day, month or cycle period, once no
\* recompute is pending or in flight for the user, the stored summary row's
\* four counts and cost equal the sums over the user's stored events that
\* fall in [period_start, period_end].
C1_ClosedSummariesExact ==
    \A row \in usage_summary :
        (Closed(row) /\ Quiescent(row.user_id)) =>
            Counts(row) = Aggregate(RowsBetween(usage_records, row.user_id,
                                                row.period_start, row.period_end))

BatchRows(records) == { UsageRow(records[k]) : k \in DOMAIN records }

\* the row of the first record of the batch that carries the key
FirstWithKey(records, key) ==
    UsageRow(records[CHOOSE k \in DOMAIN records :
        /\ NaturalKey(UsageRow(records[k])) = key
        /\ \A j \in 1..(k - 1) : NaturalKey(UsageRow(records[j])) # key])

\* the step in which InsertUsageRecords returns (inserted, nil) to handler h
InsertReturned(h) == req[h].pc = "commit" /\ req'[h].pc = "summaries"

\* C5: InsertUsageRecords returns the number of natural keys of the batch
\* that were not stored before (a key repeated inside the batch counts
\* once), duplicates are no error, every stored event stays as it is, the
\* new rows are those of the first record of each new key, and a batch whose
\* keys are all stored returns 0 and leaves the store identical.
C5_InsertCountsNewKeys ==
    [][\A h \in Handlers :
          InsertReturned(h) =>
              LET records == req[h].records
                  new == Keys(BatchRows(records)) \ Keys(usage_records)
              IN /\ req'[h].inserted = Cardinality(new)
                 /\ usage_records \subseteq usage_records'
                 /\ usage_records' \ usage_records
                        = { FirstWithKey(records, k) : k \in new }
                 /\ new = {} => (req'[h].inserted = 0
                                 /\ usage_records' = usage_records)]_vars

\* a batch that repeats a key has been inserted and counted once
C5_Witness ==
    \E h \in Handlers :
        /\ req[h].pc = "summaries"
        /\ req[h].records = <<rLate, rLateDup>>
        /\ req[h].inserted = 1
        /\ UsageRow(rLate) \in usage_records

\* C6: a sync whose events all have natural keys that are already stored
\* gets inserted = 0, requests no summary update (no UpdateSummaries call,
\* no Schedule), changes no summary row in any of its steps and answers
\* with insertedCount 0.
C6_DuplicateSyncLeavesSummaries ==
    [][\A h \in Handlers :
          /\ (InsertReturned(h)
              /\ Keys(BatchRows(req[h].records)) \subseteq Keys(usage_records))
                 => req'[h].inserted = 0
          /\ (req[h].pc \in {"summaries", "lastsync"} /\ req[h].inserted = 0
              /\ req'[h] # req[h])
                 => /\ usage_summary' = usage_summary
                    /\ jobs' = jobs
                    /\ pending' = pending
                    /\ timers' = timers
                    /\ req[h].pc = "lastsync"
                          => response'[h] = [status |-> "ok", inserted |-> 0]]_vars

\* a sync of stored events has been answered with 0 while summaries exist
C6_Witness ==
    \E h \in Handlers :
        /\ response[h] = [status |-> "ok", inserted |-> 0]
        /\ usage_summary # {}
        /\ faults = <<>>

HasRow(summary, userID, p) ==
    \E row \in summary : PrimaryKey(row) = <<userID, p.period_type, p.period_key>>

RowExact(summary, records, userID, p) ==
    \E row \in summary :
        /\ PrimaryKey(row) = <<userID, p.period_type, p.period_key>>
        /\ Counts(row) = Aggregate(RowsBetween(records, userID,
                                               p.period_start, p.period_end))

\* the day, month and cycle periods an event falls in
PeriodsOf(t, billingDay) ==
    {DayPeriod(t), MonthPeriod(t)}
        \cup (IF BillingEnabled(billingDay) THEN {CyclePeriod(t, billingDay)} ELSE {})

\* C7: when the UpdateSummaries call that a late event was handed to
\* returns, the day, month and cycle rows of the event's periods equal the
\* sums over all stored events of those periods, the late event included.
\* An event is late when its day already has a summary row.
C7_LateEventCorrects ==
    [][\A n \in Running :
          n \notin DOMAIN jobs' =>
              \A k \in DOMAIN jobs[n].records :
                  LET e == jobs[n].records[k]
                  IN (/\ NaturalKey(UsageRow(e)) \in Keys(usage_records)
                      /\ HasRow(usage_summary, jobs[n].userID,
                                DayPeriod(e.Timestamp)))
                     => \A p \in PeriodsOf(e.Timestamp, jobs[n].billingDay) :
                            RowExact(usage_summary', usage_records',
                                     jobs[n].userID, p)]_vars

\* the period of the row contains the current time
Open(row) ==
    Unix(row.period_start) <= Unix(Now) /\ Unix(Now) <= Unix(row.period_end)

\* C8 as stated: no summary row is stored for the open day, month or cycle.
C8_OpenPeriodNeverStored == \A row \in usage_summary : ~Open(row)

\* every entry of the list that is about the open period is the first one
\* and is the live sum over raw records
OnlyLive(list, key, agg) ==
    \A i \in DOMAIN list :
        list[i].Period = key =>
            /\ i = 1
            /\ list[i] = Live(key, agg)
            /\ agg.input_tokens > 0 \/ agg.output_tokens > 0

\* C8: a summary row may be stored for the open day, month or cycle, but
\* the queries never report it: what GetUsageByDay, GetUsageByMonth and
\* GetUsageByBillingCycle return about the open period is only the live sum
\* over the raw records, as the first entry.
C8_OpenPeriodReportedLive ==
    \A u \in Users :
        LET cycle == GetBillingPeriod(billing_day[u], Now)
        IN /\ OnlyLive(GetUsageByDay(u, billing_day[u]), DayKey(Now),
                       Aggregate(RowsOfDay(usage_records, u, DayKey(Now))))
           /\ OnlyLive(GetUsageByMonth(u), MonthKey(Now),
                       Aggregate(RowsOfMonth(usage_records, u, MonthKey(Now))))
           /\ OnlyLive(GetUsageByBillingCycle(u, billing_day[u]),
                       CycleKey(cycle.start, cycle.end),
                       Aggregate(RowsBetween(usage_records, u,
                                             cycle.start, cycle.end)))

\* rows of the open day, month and cycle are stored and the queries report
\* the open periods
C8_Witness ==
    /\ \A type \in {"day", "month", "cycle"} :
          \E row \in usage_summary :
              row.user_id = "u1" /\ row.period_type = type /\ Open(row)
    /\ Len(GetUsageByDay("u1", billing_day["u1"])) >= 1
    /\ GetUsageByDay("u1", billing_day["u1"])[1].Period = DayKey(Now)
    /\ Len(GetUsageByBillingCycle("u1", billing_day["u1"])) >= 2

C10_UpdateAllOrNothing ==
    [][/\ \A n \in Running :
             (n \notin DOMAIN jobs' /\ faults' # faults)
                => usage_summary' = usage_summary
       /\ usage_summary' # usage_summary
             => \E n \in Running :
                    /\ jobs[n].todo = {}
                    /\ n \notin DOMAIN jobs'
                    /\ usage_summary' = jobs[n].view
                    /\ \A p \in Affected(jobs[n].billingDay, jobs[n].records) :
                           HasRow(usage_summary', jobs[n].userID, p)]_vars

\* an update failed after some of its upserts had run, and no summary row
\* is stored
C10_Witness ==
    /\ \E i \in DOMAIN faults : faults[i].op = "update" /\ faults[i].done >= 1
    /\ usage_summary = {}
    /\ usage_records # {}

(***************************************************************************)
(* The CLI client: doSyncOnce against the server                           *)
(***************************************************************************)
\* an event written after the clock has moved on
rApril == Record("u1", At(2024, 4, 16, 100), "s4", 1, 0, 0, 0)

\* parser.ParseAllFiles(): the usage records in the client's log files at
\* the time now, oldest first
ClientLog(now) ==
    SelectSeq(<<rOld, rLate, rNext, rToday, rApril>>,
              LAMBDA r : Unix(r.Timestamp) <= Unix(now))

\* the records doSyncOnce keeps: lastSync == nil || r.Timestamp.After(*lastSync)
ToSync(records, lastSync) ==
    SelectSeq(records,
              LAMBDA r : lastSync = 0 \/ Unix(r.Timestamp) > Unix(Clock[lastSync]))

\* doSyncOnce: GetSyncStatus, ParseAllFiles, the filter, and client.Sync
\* unless there is nothing to send
DoSyncOnce(h) ==
    LET toSync == ToSync(ClientLog(Now), last_sync_at["u1"])
    IN /\ Len(toSync) > 0
       /\ APISyncBegin(h, "u1", toSync)

\* SpecClient: the one client of a user runs doSyncOnce again and again, one
\* request at a time, against a server whose storage may fail
NextClient ==
    \/ Tick
    \/ nSyncs < MaxSyncs /\ DoSyncOnce("h1")
    \/ InsertExec("h1")
    \/ InsertCommit("h1")
    \/ InsertFail("h1")
    \/ APISyncSummaries("h1")
    \/ APISyncFinish("h1")
    \/ \E n \in Running : UpdateSummariesExec(n)
    \/ \E n \in Running : UpdateSummariesCommit(n)
    \/ \E n \in Running : UpdateSummariesFail(n)

SpecClient == Init /\ [][NextClient]_vars

(***************************************************************************)
(* Error handling of the sync request                                      *)
(***************************************************************************)
\* the last storage error, if the request it hit is the latest one
LastFault == faults[Len(faults)]

\* every record of batch a is a record of batch b
SubBatch(a, b) == \A i \in DOMAIN a : \E j \in DOMAIN b : b[j] = a[i]

\* a record is stored exactly once
StoredOnce(rows, r) ==
    Cardinality({ x \in rows : NaturalKey(x) = NaturalKey(UsageRow(r)) }) = 1

\* C11: when InsertUsageRecords fails the client gets an error and
\* clients.last_sync_at stays as it was; the client's next sync carries the
\* records of the failed one again; and when an insert succeeds each of its
\* records is stored exactly once.
C11_InsertFailureRetried ==
    [][\A h \in Handlers :
          /\ (req[h].pc \in {"insert", "commit"} /\ req'[h].pc = "idle")
                => /\ response'[h].status = "error"
                   /\ last_sync_at' = last_sync_at
          /\ (req[h].pc = "idle" /\ req'[h].pc = "insert" /\ faults # <<>>
              /\ LastFault.op = "insert" /\ LastFault.n = nSyncs)
                => SubBatch(LastFault.records, req'[h].records)
          /\ InsertReturned(h)
                => \A k \in DOMAIN req[h].records :
                       StoredOnce(usage_records', req[h].records[k])]_vars

\* a sync failed in its insert, and the next one has stored its records
C11_Witness ==
    /\ faults # <<>>
    /\ LastFault.op = "insert" /\ LastFault.n = 1 /\ LastFault.done >= 1
    /\ response["h1"].status = "ok"
    /\ response["h1"].inserted = Len(LastFault.records)
    /\ \A k \in DOMAIN LastFault.records :
           StoredOnce(usage_records, LastFault.records[k])

\* C12: when the UpdateSummaries call of a sync request fails, the request
\* is answered with an error and clients.last_sync_at stays as it was.
C12_UpdateFailureSurfaced ==
    [][\A h \in Handlers :
          (/\ req[h].pc = "lastsync" /\ req'[h].pc = "idle"
           /\ \E i \in DOMAIN faults :
                  faults[i].op = "update" /\ faults[i].n = req[h].n)
             => /\ response'[h].status = "error"
                /\ last_sync_at' = last_sync_at]_vars

(***************************************************************************)
(* Handler.UpdateBillingDay and RebuildCycleSummaries                      *)
(***************************************************************************)
\* the billing_day form field: empty, or a number
FormValues ==
    { [empty |-> TRUE, value |-> 0], [empty |-> FALSE, value |-> 0],
      [empty |-> FALSE, value |-> 1], [empty |-> FALSE, value |-> 40] }

\* the handler's parsing: empty is 0, a number is clamped to 1..31
FormBillingDay(form) ==
    IF form.empty THEN 0
    ELSE IF form.value > 31 THEN 31
    ELSE IF form.value < 1 THEN 1 ELSE form.value

\* a DELETE without the period_type condition
DeleteAllPeriods(summary, userID) ==
    { x \in summary : x.user_id # userID }

\* DELETE FROM usage_summary WHERE user_id = ? AND period_type = 'cycle'
DeleteCycles(summary, userID) ==
    { x \in summary : ~(x.user_id = userID /\ x.period_type = "cycle") }

\* SELECT ... FROM usage_summary WHERE user_id = ? AND period_type = 'day'
DayRows(summary, userID) ==
    { x \in summary : x.user_id = userID /\ x.period_type = "day" }

\* the cycle of a day summary: time.Parse("2006-01-02", day), cycleStart,
\* cycleEnd and cycleKey as in UpdateSummaries
RebuildCycleOf(day, billingDay) == CyclePeriod(ParseDay(day), billingDay)

\* the day rows that are added up under one key of the cycles map
DaysOfKey(dayRows, billingDay, key) ==
    { x \in dayRows : RebuildCycleOf(x.period_key, billingDay).period_key = key }

\* the keys of the cycles map
CycleKeys(dayRows, billingDay) ==
    { RebuildCycleOf(x.period_key, billingDay).period_key : x \in dayRows }

\* the rows the cycles map stands for; last[key] is the day row scanned last
\* under the key, whose cycleStart and cycleEnd the entry keeps
CycleRows(dayRows, userID, billingDay, last) ==
    { SummaryRow(userID, RebuildCycleOf(last[key].period_key, billingDay),
                 Aggregate(DaysOfKey(dayRows, billingDay, key)))
        : key \in CycleKeys(dayRows, billingDay) }

RebuildActive == rebuild.pc \in {"delete", "query", "insert"}

\* the handler up to RebuildCycleSummaries: the form is parsed and
\* UpdateUserBillingDay has run
UpdateBillingDayBegin(u, form) ==
    /\ ~RebuildActive
    /\ ~writer
    /\ billing_day' = [billing_day EXCEPT ![u] = FormBillingDay(form)]
    /\ rebuild' = [pc |-> "delete", n |-> rebuild.n + 1, userID |-> u,
                   billingDay |-> FormBillingDay(form), cycles |-> {}]
    /\ UNCHANGED << overlapped, mode, call, clock, last_sync_at, usage_records, usage_summary,
                    writer, req, response, pending, timers, jobs, nSyncs, faults,
                    schedLog, burst, updCalls >>

\* the DELETE statement, then the return for a disabled billing day
RebuildDelete ==
    /\ rebuild.pc = "delete"
    /\ ~writer
    /\ usage_summary' = DeleteCycles(usage_summary, rebuild.userID)
    /\ rebuild' = [rebuild EXCEPT !.pc = IF BillingEnabled(rebuild.billingDay)
                                         THEN "query" ELSE "done"]
    /\ UNCHANGED << overlapped, mode, call, clock, billing_day, last_sync_at, usage_records,
                    writer, req, response, pending, timers, jobs, nSyncs, faults,
                    schedLog, burst, updCalls >>

\* the SELECT over the day summaries and the loop that fills the cycles map;
\* the rows come in no stated order
RebuildQuery ==
    /\ rebuild.pc = "query"
    /\ LET dayRows == DayRows(usage_summary, rebuild.userID)
           keys == CycleKeys(dayRows, rebuild.billingDay)
       IN \E last \in [keys -> dayRows] :
             /\ \A key \in keys :
                   last[key] \in DaysOfKey(dayRows, rebuild.billingDay, key)
             /\ rebuild' = [rebuild EXCEPT
                              !.cycles = CycleRows(dayRows, rebuild.userID,
                                                   rebuild.billingDay, last),
                              !.pc = IF keys = {} THEN "done" ELSE "insert"]
    /\ UNCHANGED << overlapped, mode, call, clock, billing_day, last_sync_at, usage_records,
                    usage_summary, writer, req, response, pending, timers, jobs,
                    nSyncs, faults, schedLog, burst, updCalls >>

\* one INSERT of the last loop; a row with the key that is there already
\* makes it fail, and the function returns the error
RebuildInsert ==
    /\ rebuild.pc = "insert"
    /\ ~writer
    /\ \E c \in rebuild.cycles :
          IF \E x \in usage_summary : PrimaryKey(x) = PrimaryKey(c)
          THEN /\ rebuild' = [rebuild EXCEPT !.pc = "failed", !.cycles = {}]
               /\ UNCHANGED usage_summary
          ELSE /\ usage_summary' = usage_summary \cup {c}
               /\ rebuild' = [rebuild EXCEPT
                                !.cycles = @ \ {c},
                                !.pc = IF rebuild.cycles = {c} THEN "done"
                                       ELSE "insert"]
    /\ UNCHANGED << overlapped, mode, call, clock, billing_day, last_sync_at, usage_records,
                    writer, req, response, pending, timers, jobs, nSyncs, faults,
                    schedLog, burst, updCalls >>

\* a statement of RebuildCycleSummaries returns an error: the function
\* returns it and the handler ignores it
RebuildFail ==
    /\ RebuildActive
    /\ Len(faults) < MaxFailures
    /\ faults' = Append(faults,
           [op |-> "rebuild", n |-> rebuild.n,
            done |-> IF rebuild.pc = "delete" THEN 0 ELSE 1, records |-> <<>>])
    /\ rebuild' = [rebuild EXCEPT !.pc = "failed", !.cycles = {}]
    /\ UNCHANGED << overlapped, mode, call, clock, billing_day, last_sync_at, usage_records,
                    usage_summary, writer, req, response, pending, timers, jobs,
                    nSyncs, schedLog, burst, updCalls >>

\* no sync request is being served and no UpdateSummaries call is running
ServerIdle == Running = {} /\ \A h \in Handlers : req[h].pc = "idle"

\* SpecRebuild: the user's client syncs and the user changes the billing
\* day, one request at a time, on a storage that does not fail
NextRebuild ==
    \/ /\ nSyncs < MaxSyncs
       /\ ~RebuildActive
       /\ \E records \in Batches("u1") : APISyncBegin("h1", "u1", records)
    \/ InsertExec("h1")
    \/ InsertCommit("h1")
    \/ APISyncSummaries("h1")
    \/ APISyncFinish("h1")
    \/ \E n \in Running : UpdateSummariesExec(n)
    \/ \E n \in Running : UpdateSummariesCommit(n)
    \/ /\ rebuild.n < MaxRebuilds
       /\ ServerIdle
       /\ \E form \in FormValues : UpdateBillingDayBegin("u1", form)
    \/ RebuildDelete
    \/ RebuildQuery
    \/ RebuildInsert

SpecRebuild == Init /\ [][NextRebuild]_vars

\* SpecRebuildRace: the same requests served concurrently, with storage
\* errors in RebuildCycleSummaries
NextRebuildRace ==
    \/ /\ nSyncs < MaxSyncs
       /\ \E records \in Batches("u1") : APISyncBegin("h1", "u1", records)
    \/ InsertExec("h1")
    \/ InsertCommit("h1")
    \/ APISyncSummaries("h1")
    \/ APISyncFinish("h1")
    \/ \E n \in Running : UpdateSummariesExec(n)
    \/ \E n \in Running : UpdateSummariesCommit(n)
    \/ /\ rebuild.n < MaxRebuilds
       /\ \E form \in FormValues : UpdateBillingDayBegin("u1", form)
    \/ RebuildDelete
    \/ RebuildQuery
    \/ RebuildInsert
    \/ RebuildFail

SpecRebuildRace == Init /\ [][NextRebuildRace]_vars

(***************************************************************************)
(* Claims about the billing-day change                                     *)
(***************************************************************************)
CycleRowsOf(summary, userID) ==
    { x \in summary : x.user_id = userID /\ x.period_type = "cycle" }

\* the day summaries that fall in the billing cycle that starts at start
DaysInCycle(dayRows, billingDay, start) ==
    { x \in dayRows :
        RebuildCycleOf(x.period_key, billingDay).period_start = start }

\* the starts of the billing cycles that contain a day summary
CycleStarts(dayRows, billingDay) ==
    { RebuildCycleOf(x.period_key, billingDay).period_start : x \in dayRows }

\* RebuildCycleSummaries returns nil for an enabled billing day
RebuildCompletes ==
    /\ rebuild.pc # "done"
    /\ rebuild'.pc = "done"
    /\ BillingEnabled(rebuild.billingDay)

\* the cycle rows are one row per billing cycle that contains a day summary,
\* each with the sums of the day summaries of its cycle
OneRowPerCycle(summary, userID, billingDay) ==
    LET dayRows == DayRows(summary, userID)
        cycleRows == CycleRowsOf(summary, userID)
    IN /\ \A start \in CycleStarts(dayRows, billingDay) :
             /\ Cardinality({ x \in cycleRows : x.period_start = start }) = 1
             /\ \A x \in cycleRows :
                   x.period_start = start =>
                       Counts(x) = Aggregate(DaysInCycle(dayRows, billingDay, start))
       /\ \A x \in cycleRows : x.period_start \in CycleStarts(dayRows, billingDay)

\* C13: when RebuildCycleSummaries completes for a billing day in 1..31, the
\* user's cycle rows are exactly one row per billing cycle of that billing
\* day that contains a day summary, with counts and cost equal to the sums
\* of the day summaries that fall in the cycle.
C13_RebuildExact ==
    [][ RebuildCompletes =>
            OneRowPerCycle(usage_summary', rebuild.userID, rebuild.billingDay) ]_vars

\* the rows RebuildCycleSummaries has no business with
NotCycleOf(summary, userID) == summary \ CycleRowsOf(summary, userID)

\* C14: a billing-day change (UpdateUserBillingDay, then
\* RebuildCycleSummaries) leaves the stored events and every day and month
\* summary row as they are; only the user's cycle rows are deleted and written.
C14_RebuildTouchesCyclesOnly ==
    [][ rebuild' # rebuild =>
            /\ usage_records' = usage_records
            /\ NotCycleOf(usage_summary', rebuild'.userID)
                   = NotCycleOf(usage_summary, rebuild'.userID) ]_vars

\* a rebuild for billing day 1 has replaced the cycle rows of billing day 15
\* while day and month rows are stored
C14_Witness ==
    /\ rebuild.pc = "done"
    /\ rebuild.billingDay = 1
    /\ \E x \in CycleRowsOf(usage_summary, "u1") : x.period_start.d = 1
    /\ \A x \in CycleRowsOf(usage_summary, "u1") : x.period_start.d # 15
    /\ DayRows(usage_summary, "u1") # {}
    /\ \E x \in usage_summary : x.period_type = "month"

(***************************************************************************)
(* The usage lists and the total, read while clients sync and the user     *)
(* changes the billing day                                                 *)
(***************************************************************************)
\* an event of today that only read and wrote the prompt cache
rCache == Record("u1", At(2024, 3, 10, 300), "s5", 0, 0, 7, 2)

\* an event of the cycle "Jun 15 – Jul 14" of 2023
rMid == Record("u1", At(2023, 6, 20, 100), "s6", 2, 2, 0, 0)

\* an event of five days before today
rWeek == Record("u1", At(2024, 3, 5, 100), "s7", 3, 1, 0, 0)

\* the batches of the client of u1: its log holds events of the past only
QueryBatches(now) ==
    { records \in { <<rOld, rMid>>, <<rNext, rWeek, rToday>>, <<rCache>>,
                     <<rApril>> } :
        \A i \in 1..Len(records) : Unix(records[i].Timestamp) <= Unix(now) }

\* SpecQuery: syncs and billing-day changes, one request at a time, while
\* days pass
NextQuery ==
    \/ Tick
    \/ /\ nSyncs < MaxSyncs
       /\ ~RebuildActive
       /\ \E records \in QueryBatches(Now) : APISyncBegin("h1", "u1", records)
    \/ InsertExec("h1")
    \/ InsertCommit("h1")
    \/ APISyncSummaries("h1")
    \/ APISyncFinish("h1")
    \/ \E n \in Running : UpdateSummariesExec(n)
    \/ \E n \in Running : UpdateSummariesCommit(n)
    \/ /\ rebuild.n < MaxRebuilds
       /\ ServerIdle
       /\ \E form \in FormValues : UpdateBillingDayBegin("u1", form)
    \/ RebuildDelete
    \/ RebuildQuery
    \/ RebuildInsert

SpecQuery == Init /\ [][NextQuery]_vars

\* some stored event of rows has a nonzero token count
Active(rows) ==
    \E x \in rows : \/ x.input_tokens > 0
                    \/ x.output_tokens > 0
                    \/ x.cache_creation_tokens > 0
                    \/ x.cache_read_tokens > 0

HasEntry(list, period) == \E i \in 1..Len(list) : list[i].Period = period

\* the list has an entry for the open period exactly if rows, the stored
\* events of the period, are active, and then it is the live sum and first
LiveEntryIffActive(list, period, rows) ==
    /\ HasEntry(list, period) <=> Active(rows)
    /\ HasEntry(list, period) => list[1] = Live(period, Aggregate(rows))

\* C15: each usage list has an entry for the open period (today, this
\* month, this billing cycle) if and only if the user has a stored event
\* with a nonzero token count in it; the entry is the sum of the raw events
\* and the first element of the list.
C15_LiveEntryIffActive ==
    LET u == "u1"
        cycle == GetBillingPeriod(billing_day[u], Now)
    IN /\ LiveEntryIffActive(GetUsageByDay(u, billing_day[u]), DayKey(Now),
                             RowsOfDay(usage_records, u, DayKey(Now)))
       /\ LiveEntryIffActive(GetUsageByMonth(u), MonthKey(Now),
                             RowsOfMonth(usage_records, u, MonthKey(Now)))
       /\ BillingEnabled(billing_day[u]) =>
              LiveEntryIffActive(GetUsageByBillingCycle(u, billing_day[u]),
                                 CycleKey(cycle.start, cycle.end),
                                 RowsBetween(usage_records, u, cycle.start, cycle.end))

\* no period label occurs twice in the list
NoPeriodTwice(list) ==
    \A i, j \in 1..Len(list) : list[i].Period = list[j].Period => i = j

\* the entries of a day or month list stand in falling order of their period
FallingKeys(list, Parse(_)) ==
    \A i, j \in 1..Len(list) :
        i < j => Unix(Parse(list[i].Period)) > Unix(Parse(list[j].Period))

\* the billing cycles of billingDay in which the user has stored events
EventCycles(records, userID, billingDay) ==
    { CyclePeriod(x.timestamp, billingDay) :
        x \in { y \in records : y.user_id = userID } }

\* the entry is the usage of cycle c: it carries the label of c and the sums
\* of the events of c
Reports(entry, c, userID) ==
    entry = Live(c.period_key,
                 Aggregate(RowsBetween(usage_records, userID,
                                       c.period_start, c.period_end)))

\* the entries of the cycle list stand in falling order of the cycles
\* whose usage they are
FallingCycles(list, userID, billingDay) ==
    \A i, j \in 1..Len(list) :
        \A ci, cj \in EventCycles(usage_records, userID, billingDay) :
            (i < j /\ Reports(list[i], ci, userID) /\ Reports(list[j], cj, userID))
                => Unix(ci.period_start) > Unix(cj.period_start)

\* C16: each usage list is ordered newest period first and names no period
\* more than once.
C16_NewestFirstNoRepeats ==
    LET u == "u1"
        days == GetUsageByDay(u, billing_day[u])
        months == GetUsageByMonth(u)
        cycles == GetUsageByBillingCycle(u, billing_day[u])
    IN /\ NoPeriodTwice(days) /\ FallingKeys(days, ParseDay)
       /\ NoPeriodTwice(months) /\ FallingKeys(months, ParseMonth)
       /\ NoPeriodTwice(cycles) /\ FallingCycles(cycles, u, billing_day[u])

(***************************************************************************)
(* GetTotalUsage                                                           *)
(***************************************************************************)
\* the sum over the completed days only
GetTotalUsageWithoutToday(userID, billingDay) ==
    LET today == DayKey(Now)
        periodStart == GetBillingPeriod(billingDay, Now).start
    IN Live("Total", Aggregate(CompletedDays(usage_summary, userID, today,
                                             periodStart)))

\* the sum of the day summaries other than today's, from the start of the
\* billing period on if there is one, plus the sum of today's raw events
GetTotalUsage(userID, billingDay) ==
    LET today == DayKey(Now)
        periodStart == GetBillingPeriod(billingDay, Now).start
        u == Aggregate(CompletedDays(usage_summary, userID, today, periodStart))
        todayUsage == Aggregate(RowsOfDay(usage_records, userID, today))
    IN [Period |-> "Total",
        InputTokens |-> u.input_tokens + todayUsage.input_tokens,
        OutputTokens |-> u.output_tokens + todayUsage.output_tokens,
        CacheCreationTokens |-> u.cache_creation_tokens
                                    + todayUsage.cache_creation_tokens,
        CacheReadTokens |-> u.cache_read_tokens + todayUsage.cache_read_tokens,
        Cost |-> u.cost + todayUsage.cost]

\* the days on which the user has stored events
EventDays(records, userID) ==
    { DayPeriod(x.timestamp) : x \in { y \in records : y.user_id = userID } }

\* every day with stored events has a day summary with the sums of its events
DaySummariesUpToDate(userID) ==
    \A p \in EventDays(usage_records, userID) :
        RowExact(usage_summary, usage_records, userID, p)

\* the stored events at or after the start of the current billing period;
\* all of them if there is no billing day
EventsSince(userID, billingDay) ==
    { x \in usage_records :
        /\ x.user_id = userID
        /\ BillingEnabled(billingDay) =>
               Unix(x.timestamp) >= Unix(GetBillingPeriod(billingDay, Now).start) }

\* C17: when the day summaries are up to date, GetTotalUsage is the sum over
\* all stored events of the user at or after the start of the current
\* billing period (all events without a billing day), each event counted
\* once, also when a day summary for today is stored.
C17_TotalIsSumOfEvents ==
    \A u \in Users :
        DaySummariesUpToDate(u) =>
            GetTotalUsage(u, billing_day[u])
                = Live("Total", Aggregate(EventsSince(u, billing_day[u])))

\* with a billing day, the total is made of a completed day of the period
\* and of today's events, today has a day summary, and older events are
\* left out
C17_Witness ==
    /\ BillingEnabled(billing_day["u1"])
    /\ DaySummariesUpToDate("u1")
    /\ HasRow(usage_summary, "u1", DayPeriod(Now))
    /\ RowsOfDay(usage_records, "u1", DayKey(Now)) # {}
    /\ CompletedDays(usage_summary, "u1", DayKey(Now),
                     GetBillingPeriod(billing_day["u1"], Now).start) # {}
    /\ EventsSince("u1", billing_day["u1"])
           # { x \in usage_records : x.user_id = "u1" }

(***************************************************************************)
(* Periods without events                                                  *)
(***************************************************************************)
\* the user has a stored event between the bounds of the row
RowHasEvents(row) ==
    RowsBetween(usage_records, row.user_id, row.period_start, row.period_end) # {}

\* the period named by an entry of a list of kind type has stored events:
\* it is the open period, with events, or the period of a stored row with
\* events
EntryHasEvents(entry, userID, type, open) ==
    \/ /\ entry.Period = open.period_key
       /\ RowsBetween(usage_records, userID, open.period_start,
                      open.period_end) # {}
    \/ \E row \in usage_summary :
          /\ PrimaryKey(row) = <<userID, type, entry.Period>>
          /\ RowHasEvents(row)

ListHasEvents(list, userID, type, open) ==
    \A i \in 1..Len(list) : EntryHasEvents(list[i], userID, type, open)

\* C18: a day, month or billing cycle in which the user has no stored
\* events has no summary row and no entry in a usage list, neither from a
\* summary nor live.
C18_NoEventsNoRowNoEntry ==
    /\ \A row \in usage_summary : RowHasEvents(row)
    /\ \A u \in Users :
          /\ ListHasEvents(GetUsageByDay(u, billing_day[u]), u, "day",
                           DayPeriod(Now))
          /\ ListHasEvents(GetUsageByMonth(u), u, "month", MonthPeriod(Now))
          /\ ListHasEvents(GetUsageByBillingCycle(u, billing_day[u]), u, "cycle",
                           CyclePeriod(Now, billing_day[u]))

\* after a rebuild, today and this month have no events while older
\* periods have rows and entries
C18_Witness ==
    /\ rebuild.pc = "done"
    /\ BillingEnabled(billing_day["u1"])
    /\ RowsOfMonth(usage_records, "u1", MonthKey(Now)) = {}
    /\ CycleRowsOf(usage_summary, "u1") # {}
    /\ Len(GetUsageByMonth("u1")) >= 2
    /\ Len(GetUsageByBillingCycle("u1", billing_day["u1"])) >= 2

(***************************************************************************)
(* The calendar functions, called with any billing day on any date         *)
(***************************************************************************)
\* the billing days tried: the values 1..31 and ExtraBillingDays values on
\* either side
BillingDays == (1 - ExtraBillingDays)..(31 + ExtraBillingDays)

\* the dates tried as time.Now(): every month of a common and of a leap
\* year, on the days around the ends of the months
Dates ==
    { t \in { At(y, m, d, 43200) : y \in {2023, 2024}, m \in 1..12,
                                   d \in {1, 14, 15, 27, 28, 29, 30, 31} } :
        t.d <= LastDay(t.y, t.m) }

\* GetBillingPeriod(billingDay) is called at time now
CallGetBillingPeriod(billingDay, now) ==
    /\ call' = [fn |-> "GetBillingPeriod", billingDay |-> billingDay,
                now |-> now, period |-> GetBillingPeriod(billingDay, now)]
    /\ UNCHANGED << overlapped, mode, rebuild, clock, billing_day, last_sync_at,
                    usage_records, usage_summary, writer, req, response, pending,
                    timers, jobs, nSyncs, faults, schedLog, burst, updCalls >>

\* GetUsageByBillingCycle(userID, billingDay) is called and returns a list
\* and a nil error
CallGetUsageByBillingCycle(userID, billingDay) ==
    /\ call' = [fn |-> "GetUsageByBillingCycle", billingDay |-> billingDay,
                now |-> Now, list |-> GetUsageByBillingCycle(userID, billingDay),
                err |-> "nil"]
    /\ UNCHANGED << overlapped, mode, rebuild, clock, billing_day, last_sync_at,
                    usage_records, usage_summary, writer, req, response, pending,
                    timers, jobs, nSyncs, faults, schedLog, burst, updCalls >>

\* SpecCalendar: the client of u1 syncs one batch; at some moment one of the
\* calendar functions is called with any billing day, GetBillingPeriod on
\* any date
NextCalendar ==
    \/ nSyncs = 0 /\ APISyncBegin("h1", "u1", <<rNext, rWeek, rToday>>)
    \/ InsertExec("h1")
    \/ InsertCommit("h1")
    \/ APISyncSummaries("h1")
    \/ APISyncFinish("h1")
    \/ \E n \in Running : UpdateSummariesExec(n)
    \/ \E n \in Running : UpdateSummariesCommit(n)
    \/ /\ call = NoCall
       /\ \E billingDay \in BillingDays, now \in Dates :
             CallGetBillingPeriod(billingDay, now)
    \/ /\ call = NoCall
       /\ \E billingDay \in BillingDays :
             CallGetUsageByBillingCycle("u1", billingDay)

SpecCalendar == Init /\ [][NextCalendar]_vars

\* C19: for a billing day <= 0 or > 31, GetBillingPeriod returns the zero
\* start and the zero end, and GetUsageByBillingCycle returns an empty list
\* and no error.
C19_DisabledBillingDay ==
    (call.fn # "none" /\ (call.billingDay <= 0 \/ call.billingDay > 31)) =>
        /\ call.fn = "GetBillingPeriod" =>
               IsZero(call.period.start) /\ IsZero(call.period.end)
        /\ call.fn = "GetUsageByBillingCycle" =>
               call.list = <<>> /\ call.err = "nil"

\* GetUsageByBillingCycle was called with a billing day above 31 while the
\* user has cycle rows and events in the open cycle
C19_Witness ==
    /\ call.fn = "GetUsageByBillingCycle"
    /\ call.billingDay > 31
    /\ CycleRowsOf(usage_summary, "u1") # {}
    /\ GetUsageByBillingCycle("u1", billing_day["u1"]) # <<>>

\* the number of days of each month of the calendar
MonthLength(y, m) ==
    IF m = 2 /\ y % 4 = 0 /\ (y % 100 # 0 \/ y % 400 = 0) THEN 29
    ELSE <<31, 28, 31, 30, 31, 30, 31, 31, 30, 31, 30, 31>>[m]

\* the cycle boundary of a month: midnight of the billing day, or of the
\* last day of the month if the month is shorter
Boundary(y, m, billingDay) ==
    [y |-> y, m |-> m, s |-> 0,
     d |-> IF billingDay < MonthLength(y, m) THEN billingDay
           ELSE MonthLength(y, m)]

\* the midnight that follows the last second t of a day
NextMidnight(t) ==
    IF t.d < MonthLength(t.y, t.m) THEN [y |-> t.y, m |-> t.m, d |-> t.d + 1, s |-> 0]
    ELSE IF t.m < 12 THEN [y |-> t.y, m |-> t.m + 1, d |-> 1, s |-> 0]
    ELSE [y |-> t.y + 1, m |-> 1, d |-> 1, s |-> 0]

\* the month after the month of t, as a pair of year and month
MonthAfter(t) == IF t.m = 12 THEN <<t.y + 1, 1>> ELSE <<t.y, t.m + 1>>

\* C20: for every billing day in 1..31 and every month, the boundary of the
\* billing period in that month is the billing day, or the last day of the
\* month if the month is shorter (28 or 29 in February), never a day of the
\* following month: the period starts on the boundary of its month, ends one
\* second before the boundary of the next month, and holds the current time.
C20_BoundaryClamped ==
    (call.fn = "GetBillingPeriod" /\ call.billingDay \in 1..31) =>
        LET start == call.period.start
            next == NextMidnight(call.period.end)
        IN /\ start = Boundary(start.y, start.m, call.billingDay)
           /\ call.period.end.s = SecondsPerDay - 1
           /\ <<next.y, next.m>> = MonthAfter(start)
           /\ next = Boundary(next.y, next.m, call.billingDay)
           /\ Unix(start) <= Unix(call.now)
           /\ Unix(call.now) < Unix(next)

\* billing day 31 on the last day of February of a leap year: the period
\* starts on February 29 and ends on March 30
C20_Witness ==
    /\ call.fn = "GetBillingPeriod"
    /\ call.billingDay = 31
    /\ call.now = At(2024, 2, 29, 43200)
    /\ call.period.start = At(2024, 2, 29, 0)
    /\ call.period.end = At(2024, 3, 30, 86399)

\* the month before the month of t, as a pair of year and month
MonthBefore(t) == IF t.m = 1 THEN <<t.y - 1, 12>> ELSE <<t.y, t.m - 1>>

\* the last second before midnight t
LastSecondBefore(t) ==
    IF t.d > 1 THEN [y |-> t.y, m |-> t.m, d |-> t.d - 1, s |-> SecondsPerDay - 1]
    ELSE LET b == MonthBefore(t)
         IN [y |-> b[1], m |-> b[2], d |-> MonthLength(b[1], b[2]),
             s |-> SecondsPerDay - 1]

\* C21: for every billing day in 1..31 and every current date, the period
\* starts on the clamped billing day of the current month if today's day of
\* the month has reached it, and else on the clamped billing day of the
\* previous month (December of the year before in January); it ends one
\* second before the clamped billing day of the month after the start month
\* (January of the next year after December).
C21_PeriodOfToday ==
    (call.fn = "GetBillingPeriod" /\ call.billingDay \in 1..31) =>
        LET now == call.now
            b == call.billingDay
            before == MonthBefore(now)
            start == IF now.d >= Boundary(now.y, now.m, b).d
                     THEN Boundary(now.y, now.m, b)
                     ELSE Boundary(before[1], before[2], b)
            after == MonthAfter(start)
        IN /\ call.period.start = start
           /\ call.period.end = LastSecondBefore(Boundary(after[1], after[2], b))

\* on 14 January with billing day 15 the period started in December of the
\* year before
C21_Witness ==
    /\ call.fn = "GetBillingPeriod"
    /\ call.billingDay = 15
    /\ call.now = At(2023, 1, 14, 43200)
    /\ call.period.start = At(2022, 12, 15, 0)
    /\ call.period.end = At(2023, 1, 14, 86399)

(***************************************************************************)
(* Two sync requests with overlapping batches                              *)
(***************************************************************************)
\* two batches that share the natural key of rLate and rLateDup
OverlapBatches == { <<rOld, rLate>>, <<rLateDup, rNext>> }

\* SpecOverlap: a second sync request of the same user arrives while the
\* first is being served
NextOverlap ==
    \/ /\ nSyncs = 0
       /\ \E records \in OverlapBatches : APISyncBegin("h1", "u1", records)
    \/ /\ nSyncs = 1
       /\ \E records \in OverlapBatches : APISyncBegin("h2", "u1", records)
    \/ \E h \in Handlers : InsertExec(h)
    \/ \E h \in Handlers : InsertCommit(h)
    \/ \E h \in Handlers : APISyncSummaries(h)
    \/ \E h \in Handlers : APISyncFinish(h)
    \/ \E n \in Running : UpdateSummariesExec(n)
    \/ \E n \in Running : UpdateSummariesCommit(n)

SpecOverlap == Init /\ [][NextOverlap]_vars

\* InsertUsageRecords has returned to the handler's current or last request
PastInsert(h) ==
    \/ req[h].pc \in {"summaries", "update", "lastsync"}
    \/ req[h].pc = "idle" /\ response[h].status = "ok"

\* the insertedCount of the handler's current or last request
InsertedBy(h) ==
    IF req[h].pc = "idle" THEN response[h].inserted ELSE req[h].inserted

\* C22: when two sync requests insert overlapping batches concurrently,
\* every natural key of both batches is stored exactly once, neither insert
\* fails, and the two insertedCounts add up to the number of distinct keys
\* that were new (the store was empty before).
C22_OverlappingInserts ==
    [][\A h \in Handlers :
          InsertReturned(h) =>
              /\ usage_records \subseteq usage_records'
              /\ Keys(BatchRows(req[h].records)) \subseteq Keys(usage_records')
              /\ Cardinality(Keys(usage_records')) = Cardinality(usage_records')
              /\ response'[h].status # "error"
              /\ \A o \in Handlers \ {h} :
                    PastInsert(o) =>
                        req'[h].inserted + InsertedBy(o)
                            = Cardinality(Keys(usage_records'))]_vars

\* the second request committed its batch first: it inserted both of its
\* keys and the first request the one key that was left
C22_Witness ==
    /\ PastInsert("h1") /\ PastInsert("h2")
    /\ req["h1"].records = <<rOld, rLate>>
    /\ req["h2"].records = <<rLateDup, rNext>>
    /\ req["h2"].inserted = 2
    /\ req["h1"].inserted = 1
    /\ UsageRow(rLateDup) \in usage_records

(***************************************************************************)
(* RebuildCycleSummaries as one unit                                       *)
(***************************************************************************)
\* C23: RebuildCycleSummaries is all-or-nothing: the user's stored cycle
\* rows, which every query and every UpdateSummaries call reads, change
\* only in the step in which the rebuild completes; a rebuild that fails
\* part-way leaves them as they were before the call, and no state shows
\* them deleted but not yet rebuilt, or partly rebuilt.
C23_RebuildAllOrNothing ==
    [][ (/\ rebuild' # rebuild
         /\ CycleRowsOf(usage_summary', rebuild'.userID)
                # CycleRowsOf(usage_summary, rebuild'.userID))
            => rebuild'.pc = "done" ]_vars

(***************************************************************************)
(* Handler.APISync from the JSON records on                                *)
(***************************************************************************)
\* a record of the request body: its timestamp is a string, here the time
\* it spells and whether it is spelled in the RFC 3339 layout
Wire(r) == [r EXCEPT !.Timestamp = [layout |-> "RFC3339", t |-> r.Timestamp]]
Malformed(r) == [r EXCEPT !.Timestamp = [layout |-> "other", t |-> r.Timestamp]]

\* a parser that takes any layout
ParseAnyLayout(ts) == [err |-> FALSE, t |-> ts.t]

\* time.Parse(time.RFC3339, r.Timestamp)
ParseRFC3339(ts) ==
    IF ts.layout = "RFC3339" THEN [err |-> FALSE, t |-> ts.t]
    ELSE [err |-> TRUE, t |-> ZeroTime]

\* the loop over req.Records: a record whose timestamp does not parse is
\* skipped, the others become database.UsageRecord values in their order
RECURSIVE ConvertRecords(_)
ConvertRecords(wire) ==
    IF wire = <<>> THEN <<>>
    ELSE LET r == Head(wire)
             ts == ParseRFC3339(r.Timestamp)
         IN (IF ts.err THEN <<>> ELSE << [r EXCEPT !.Timestamp = ts.t] >>)
                \o ConvertRecords(Tail(wire))

\* the request bodies of the client of u1
WireBatches ==
    { << Wire(rMid), Malformed(rOld), Wire(rNext) >>,
      << Malformed(rWeek), Wire(rToday) >>,
      << Malformed(rCache) >> }

\* a request arrives with its JSON records and the handler converts them;
\* with no record left, InsertUsageRecords runs an empty transaction and
\* returns 0
APISyncDecode(h, u, wire) ==
    LET records == ConvertRecords(wire)
    IN /\ req[h].pc = "idle"
       /\ h = "h1" \/ req["h1"].pc # "idle"
       /\ nSyncs' = nSyncs + 1
       /\ req' = [req EXCEPT ![h] =
                    [pc |-> IF records = <<>> THEN "summaries" ELSE "insert",
                     n |-> nSyncs + 1, userID |-> u,
                     billingDay |-> billing_day[u], records |-> records,
                     i |-> 1, view |-> {}, locked |-> FALSE, inserted |-> 0,
                     wire |-> wire]]
       /\ response' = [response EXCEPT ![h] = NoResponse]
       /\ UNCHANGED << overlapped, mode, call, rebuild, clock, billing_day, last_sync_at,
                       usage_records, usage_summary, writer, pending, timers,
                       jobs, faults, schedLog, burst, updCalls >>

\* SpecWire: the client of u1 syncs bodies that hold malformed timestamps
NextWire ==
    \/ Tick
    \/ /\ nSyncs < MaxSyncs
       /\ \E wire \in WireBatches : APISyncDecode("h1", "u1", wire)
    \/ InsertExec("h1")
    \/ InsertCommit("h1")
    \/ APISyncSummaries("h1")
    \/ APISyncFinish("h1")
    \/ \E n \in Running : UpdateSummariesExec(n)
    \/ \E n \in Running : UpdateSummariesCommit(n)

SpecWire == Init /\ [][NextWire]_vars

\* the records of a request body whose timestamps are well formed, as rows
WellFormedRows(wire) ==
    { UsageRow([wire[k] EXCEPT !.Timestamp = wire[k].Timestamp.t]) :
        k \in { j \in DOMAIN wire : wire[j].Timestamp.layout = "RFC3339" } }

\* the step in which the handler answers the request
Answered(h) == req[h].pc # "idle" /\ req'[h].pc = "idle"

\* C24: a sync record whose timestamp cannot be parsed is dropped; every
\* other record of the batch is inserted and its day, month and cycle
\* summaries hold it when the request is answered; the request succeeds.
C24_MalformedDropped ==
    [][\A h \in Handlers :
          /\ InsertReturned(h) =>
                /\ usage_records' \ usage_records \subseteq WellFormedRows(req[h].wire)
                /\ Keys(WellFormedRows(req[h].wire)) \subseteq Keys(usage_records')
          /\ Answered(h) =>
                /\ response'[h].status = "ok"
                /\ Keys(WellFormedRows(req[h].wire)) \subseteq Keys(usage_records')
                /\ \A row \in WellFormedRows(req[h].wire) :
                      \A p \in PeriodsOf(row.timestamp, req[h].billingDay) :
                          RowExact(usage_summary', usage_records', row.user_id, p)
      ]_vars

\* a request with a malformed record between two well-formed ones has been
\* answered: two rows were inserted
C24_Witness ==
    /\ response["h1"] = [status |-> "ok", inserted |-> 2]
    /\ usage_records = { UsageRow(rMid), UsageRow(rNext) }
    /\ nSyncs = 1

(***************************************************************************)
(* Overlapping UpdateSummaries runs                                        *)
(***************************************************************************)
\* the row holds the sums of the stored events between its bounds
SumsItsPeriod(row) ==
    Counts(row) = Aggregate(RowsBetween(usage_records, row.user_id,
                                        row.period_start, row.period_end))

\* C25: two UpdateSummaries runs of one user that overlap in time leave,
\* once both have completed, every summary row they touched equal to the
\* sum of all stored events of its period, in whatever order they commit.
C25_OverlappingRunsExact ==
    (overlapped /\ ServerIdle) =>
        \A row \in usage_summary : SumsItsPeriod(row)

(***************************************************************************)
(* A billing-day change among sync requests                                *)
(***************************************************************************)
\* the row is a cycle of billingDay: its bounds are those of the cycle of
\* billingDay that holds its start
CycleOfBillingDay(row, billingDay) ==
    /\ BillingEnabled(billingDay)
    /\ row.period_start = CyclePeriod(row.period_start, billingDay).period_start
    /\ row.period_end = CyclePeriod(row.period_start, billingDay).period_end

\* all summary updates and the rebuild have completed, without an error
AllRecomputed ==
    /\ ServerIdle
    /\ rebuild.pc = "done"
    /\ faults = <<>>

\* C26: after a billing-day change interleaved with sync batches of the
\* same user whose summary update was requested under the old billing day,
\* once all updates and the rebuild have completed, every cycle row of the
\* user is a cycle of the current billing day and holds all stored events
\* of that cycle; no row of the old billing day remains.
C26_CyclesFollowBillingDay ==
    AllRecomputed =>
        \A row \in CycleRowsOf(usage_summary, rebuild.userID) :
            /\ CycleOfBillingDay(row, billing_day[rebuild.userID])
            /\ SumsItsPeriod(row)

(***************************************************************************)
(* One summary row per billing cycle                                       *)
(***************************************************************************)
\* the billing cycles of the user's current billing day that hold events
CyclesWithEvents(userID) ==
    IF BillingEnabled(billing_day[userID])
    THEN EventCycles(usage_records, userID, billing_day[userID])
    ELSE {}

\* the row is the row of cycle c: it has the bounds of c and the sums of
\* the events of c
RowOfCycle(row, c) ==
    /\ row.period_start = c.period_start
    /\ row.period_end = c.period_end
    /\ Counts(row) = Aggregate(RowsBetween(usage_records, row.user_id,
                                           c.period_start, c.period_end))

\* C27: two different billing cycles of a user never share a summary row:
\* when the summary updates and rebuilds have completed, every cycle row
\* has the bounds and the sums of exactly one cycle, and every cycle with
\* events has a row of its own.
C27_OneRowPerCycle ==
    \A u \in Users :
        (ServerIdle /\ ~RebuildActive) =>
            /\ \A row \in CycleRowsOf(usage_summary, u) :
                  \E c \in CyclesWithEvents(u) : RowOfCycle(row, c)
            /\ \A c \in CyclesWithEvents(u) :
                  \E row \in CycleRowsOf(usage_summary, u) : RowOfCycle(row, c)

(***************************************************************************)
(* Schedule called with any anchor                                         *)
(***************************************************************************)
\* the anchors and the batches the callers of Schedule pass
Anchors == { InitialBillingDay["u1"], 1 }
ScheduleBatches(u) ==
    IF u = "u1" THEN { <<rOld>> } ELSE { <<rOther>> }

\* d.Schedule(userID, billingDay, records); the calls are numbered
ScheduleCall(userID, billingDay, records) ==
    /\ nSyncs < MaxBurst
    /\ nSyncs' = nSyncs + 1
    /\ Schedule(nSyncs + 1, userID, billingDay, records)
    /\ UNCHANGED << overlapped, mode, call, rebuild, clock, billing_day, last_sync_at, usage_records,
                    usage_summary, writer, req, response, jobs, faults,
                    updCalls >>

\* SpecSchedule: Schedule is called for both users with changing anchors,
\* the timers fire in any order, and the UpdateSummaries calls of the
\* flushes run
NextSchedule ==
    \/ \E u \in Users, billingDay \in Anchors :
          \E records \in ScheduleBatches(u) :
              ScheduleCall(u, billingDay, records)
    \/ \E t \in timers : Flush(t)
    \/ \E n \in Running : UpdateSummariesExec(n)
    \/ \E n \in Running : UpdateSummariesCommit(n)

SpecSchedule == InitDebounce /\ [][NextSchedule]_vars

\* C28: a Schedule call for a user without a pending record creates one
\* with generation 1; a call while the record exists appends its events,
\* stores the anchor passed and adds 1 to the generation; either call arms
\* one flush tagged with the new generation.  The generation of a record is
\* always the number of Schedule calls of its burst, and no flush armed in
\* the burst has a larger tag.
C28_ScheduleGenerations ==
    [][ /\ \A u \in Users :
              Exists(pending'[u]) => pending'[u].generation = Len(burst'[u])
        /\ schedLog' # schedLog =>
              LET c == schedLog'[Len(schedLog')]
                  old == pending[c.userID]
                  new == pending'[c.userID]
              IN /\ new.billingDay = c.billingDay
                 /\ new.records =
                       (IF Exists(old) THEN old.records ELSE <<>>) \o c.records
                 /\ new.generation =
                       (IF Exists(old) THEN old.generation + 1 ELSE 1)
                 /\ timers' \ timers =
                       {[userID |-> c.userID, generation |-> new.generation,
                         sid |-> c.sid]}
                 /\ timers \subseteq timers'
                 /\ \A t \in timers' :
                       t.sid \in Range(burst'[c.userID])
                           => t.generation <= new.generation
      ]_vars

\* a record of generation 2 or more whose anchor is not the one an earlier
\* call of the burst passed
C28_Witness ==
    \E u \in Users :
        /\ pending[u].generation >= 2
        /\ \E i \in DOMAIN schedLog :
              /\ schedLog[i].sid \in Range(burst[u])
              /\ schedLog[i].billingDay # pending[u].billingDay

\* the Schedule call numbered n, and the last call of a burst
CallNo(n) == schedLog[SchedIndex(n)]
LastOf(sids) == CallNo(sids[Len(sids)])

\* the step is a flush of user u that takes the pending record and enters
\* UpdateSummaries once, with the records of the burst and the anchor of
\* its last Schedule call
Takes(u) ==
    /\ Exists(pending[u])
    /\ pending' = [pending EXCEPT ![u] = NoPending]
    /\ Len(updCalls') = Len(updCalls) + 1
    /\ SubSeq(updCalls', 1, Len(updCalls)) = updCalls
    /\ LET c == updCalls'[Len(updCalls')]
       IN /\ c.userID = u
          /\ c.records = Concat(burst[u])
          /\ c.billingDay = LastOf(burst[u]).billingDay
          /\ \E n \in Running' \ Running :
                /\ Running' = Running \cup {n}
                /\ jobs'[n].userID = u
                /\ jobs'[n].records = c.records
                /\ jobs'[n].billingDay = c.billingDay

\* C29: a flush either changes nothing but its timer, or it removes the
\* pending record and calls UpdateSummaries exactly once with the record's
\* events and the anchor of the last Schedule call of the burst; only a
\* flush calls UpdateSummaries; a Schedule call made after the record was
\* taken starts a new record and leaves the events handed over as they are.
C29_FlushTakesOnce ==
    [][ /\ (timers' # timers /\ schedLog' = schedLog) =>
              \/ pending' = pending /\ updCalls' = updCalls
                                    /\ Running' = Running
              \/ \E u \in Users : Takes(u)
        /\ updCalls' # updCalls => (timers' # timers /\ schedLog' = schedLog)
        /\ schedLog' # schedLog =>
              LET c == schedLog'[Len(schedLog')]
              IN /\ updCalls' = updCalls
                 /\ Running' = Running
                 /\ ~Exists(pending[c.userID]) =>
                       /\ pending'[c.userID].records = c.records
                       /\ burst'[c.userID] = <<c.sid>>
      ]_vars

\* UpdateSummaries was called for a burst of two or more Schedule calls
\* whose first anchor is not the last one, and a Schedule call for the same
\* user followed
C29_Witness ==
    \E i \in DOMAIN updCalls :
        LET c == updCalls[i]
        IN /\ Len(c.burst) >= 2
           /\ CallNo(c.burst[1]).billingDay # c.billingDay
           /\ Exists(pending[c.userID])

\* a timer that has not fired and carries the generation of u's record
ArmedFor(u) ==
    \E t \in timers : t.userID = u /\ t.generation = pending[u].generation

\* C30: whenever a pending record exists for a user, a flush tagged with
\* the record's generation is armed and has not fired; and once the
\* Schedule calls for the user have stopped, the record is taken.
C30_PendingHasFlush ==
    /\ [](\A u \in Users : Exists(pending[u]) => ArmedFor(u))
    /\ \A u \in Users : Exists(pending[u]) ~> ~Exists(pending[u])

\* a record of a second burst, with a timer of the first burst not yet fired
C30_Witness ==
    \E u \in Users :
        /\ Exists(pending[u])
        /\ \E i \in DOMAIN updCalls : updCalls[i].userID = u
        /\ \E t \in timers : t.userID = u /\ t.sid \notin Range(burst[u])

(***************************************************************************)
(* The debouncer's lock and UpdateSummaries                                *)
(***************************************************************************)
\* the UpdateSummaries calls made by flush that are in progress
FlushRuns == { n \in Running : jobs[n].handler = "" }

Stored(r) == NaturalKey(UsageRow(r)) \in Keys(usage_records)

\* the next doSyncOnce would send the record
WillBeSent(r) ==
    LET toSync == ToSync(ClientLog(Now), last_sync_at["u1"])
    IN \E i \in DOMAIN toSync : toSync[i] = r

\* C32: no local record is skipped for good: whenever no request is being
\* served, every record in the client's files is stored on the server or
\* passes the filter of the next sync (last_sync_at never goes back, so a
\* record that is neither will never be sent).
C32_NoRecordSkipped ==
    ServerIdle =>
        \A i \in DOMAIN ClientLog(Now) :
            Stored(ClientLog(Now)[i]) \/ WillBeSent(ClientLog(Now)[i])

(***************************************************************************)
(* The open periods close while no client syncs                            *)
(***************************************************************************)
\* an event of the same days one year before rWeek
rLastMarch == Record("u1", At(2023, 3, 5, 100), "s8", 5, 0, 0, 0)

\* the batches of the clients of u1: this month's events, and an older file
RolloverBatches == { <<rWeek, rToday>>, <<rLastMarch>> }

\* SpecRollover: the clients sync and the user changes the billing day, one
\* request at a time, and the day, the month and the cycle end
NextRollover ==
    \/ Tick
    \/ /\ nSyncs < MaxSyncs
       /\ ~RebuildActive
       /\ \E records \in RolloverBatches : APISyncBegin("h1", "u1", records)
    \/ InsertExec("h1")
    \/ InsertCommit("h1")
    \/ APISyncSummaries("h1")
    \/ APISyncFinish("h1")
    \/ \E n \in Running : UpdateSummariesExec(n)
    \/ \E n \in Running : UpdateSummariesCommit(n)
    \/ /\ rebuild.n < MaxRebuilds
       /\ ServerIdle
       /\ \E form \in FormValues : UpdateBillingDayBegin("u1", form)
    \/ RebuildDelete
    \/ RebuildQuery
    \/ RebuildInsert

SpecRollover == Init /\ [][NextRollover]_vars

\* the time before the periods closed
Before == Clock[1]

\* the periods have closed, and every sync was answered before they did
RolledOver ==
    /\ clock = Len(Clock)
    /\ ServerIdle
    /\ ~RebuildActive
    /\ last_sync_at["u1"] = 1

\* the list has an entry for the period with the sums of rows
ReportsSum(list, period, rows) ==
    \E i \in 1..Len(list) : list[i] = Live(period, Aggregate(rows))

\* the day list and the total cover the days from the start of the current
\* billing period on, all days without a billing day
Covered(t, billingDay) ==
    BillingEnabled(billingDay) =>
        Unix(DayPeriod(t).period_start)
            >= Unix(GetBillingPeriod(billingDay, Now).start)

\* C33: when the open day, month and billing cycle have closed by the
\* passing of time, with no sync since, the month list and the cycle list
\* report the closed month and cycle, and the day list the closed day if it
\* lies in the period the list covers, each with the sums of all stored
\* events of the period; the total is the sum of the stored events of the
\* period it covers.
C33_RolloverKeepsPeriod ==
    RolledOver =>
        LET u == "u1"
            b == billing_day[u]
            day == RowsOfDay(usage_records, u, DayKey(Before))
            month == RowsOfMonth(usage_records, u, MonthKey(Before))
            c == CyclePeriod(Before, b)
            cycle == RowsBetween(usage_records, u, c.period_start, c.period_end)
        IN /\ (day # {} /\ Covered(Before, b)) =>
                  ReportsSum(GetUsageByDay(u, b), DayKey(Before), day)
           /\ month # {} =>
                  ReportsSum(GetUsageByMonth(u), MonthKey(Before), month)
           /\ (BillingEnabled(b) /\ cycle # {}) =>
                  ReportsSum(GetUsageByBillingCycle(u, b), c.period_key, cycle)
           /\ GetTotalUsage(u, b) = Live("Total", Aggregate(EventsSince(u, b)))

(***************************************************************************)
(* The rows UpdateSummaries writes                                         *)
(***************************************************************************)
\* the batches of the sync requests of the two users
FrameBatches(u) ==
    IF u = "u1" THEN { <<rOld>>, <<rNext, rToday>> } ELSE { <<rOther>> }

\* db.UpdateSummaries(userID, billingDay, nil): a call with no records
UpdateSummariesEmpty(userID, billingDay) ==
    /\ nSyncs < MaxSyncs
    /\ nSyncs' = nSyncs + 1
    /\ jobs' = Started(nSyncs + 1, StartJob("", userID, billingDay, <<>>))
    /\ overlapped' = Overlapping(userID)
    /\ UNCHANGED << mode, call, rebuild, clock, billing_day, last_sync_at, usage_records,
                    usage_summary, writer, req, response, pending, timers,
                    faults, schedLog, burst, updCalls >>

\* SpecFrame: the clients of both users sync at once, UpdateSummaries is
\* also called without records, and UpdateSummaries may fail
NextFrame ==
    \/ /\ nSyncs < MaxSyncs
       /\ \E h \in Handlers, u \in Users : \E records \in FrameBatches(u) :
              APISyncBegin(h, u, records)
    \/ \E u \in Users : UpdateSummariesEmpty(u, billing_day[u])
    \/ \E h \in Handlers : InsertExec(h)
    \/ \E h \in Handlers : InsertCommit(h)
    \/ \E h \in Handlers : APISyncSummaries(h)
    \/ \E h \in Handlers : APISyncFinish(h)
    \/ \E n \in Running : UpdateSummariesReturn(n)
    \/ \E n \in Running : UpdateSummariesExec(n)
    \/ \E n \in Running : UpdateSummariesCommit(n)
    \/ \E n \in Running : UpdateSummariesFail(n)

SpecFrame == Init /\ [][NextFrame]_vars

\* the rows that differ between two states of a table
Changed(before, after) == (before \ after) \cup (after \ before)

\* the row's key is the day, the month or, with a billing day, the cycle of
\* the time t
KeyOfTime(row, t, billingDay) ==
    \/ row.period_type = "day" /\ row.period_key = DayKey(t)
    \/ row.period_type = "month" /\ row.period_key = MonthKey(t)
    \/ /\ BillingEnabled(billingDay)
       /\ row.period_type = "cycle"
       /\ row.period_key = CyclePeriod(t, billingDay).period_key

\* C34: UpdateSummaries(user, billingDay, records) changes only summary
\* rows of that user whose key is the day, the month or, with a billing
\* day, the cycle of one of the records; a call with no records changes no
\* row and returns no error.
C34_UpdateSummariesFrame ==
    [][ /\ usage_summary' # usage_summary =>
              \E n \in Running \ Running' :
                  \A row \in Changed(usage_summary, usage_summary') :
                      /\ row.user_id = jobs[n].userID
                      /\ \E i \in 1..Len(jobs[n].records) :
                            KeyOfTime(row, jobs[n].records[i].Timestamp,
                                      jobs[n].billingDay)
        /\ \A n \in Running \ Running' :
              jobs[n].records = <<>> =>
                  /\ usage_summary' = usage_summary
                  /\ faults' = faults
      ]_vars

\* UpdateSummaries has written the six rows of a batch of two events, and
\* a call with no records for the other user is about to return
C34_Witness ==
    /\ CycleRowsOf(usage_summary, "u1") # {}
    /\ Cardinality(usage_summary) >= 6
    /\ \E n \in Running : jobs[n].records = <<>> /\ jobs[n].userID = "u2"

(***************************************************************************)
(* Billing days outside 1..31                                              *)
(***************************************************************************)
\* billing days below 1 and above 31, and the billing days of the calls
OutsideAnchors == { 1 - ExtraBillingDays, 0, 31 + ExtraBillingDays }
CallAnchors == OutsideAnchors \cup { InitialBillingDay["u1"] }

\* db.UpdateSummaries(userID, billingDay, records) for stored records
UpdateSummariesCall(userID, billingDay, records) ==
    /\ nSyncs < MaxSyncs
    /\ ServerIdle
    /\ \A i \in 1..Len(records) :
          NaturalKey(UsageRow(records[i])) \in Keys(usage_records)
    /\ nSyncs' = nSyncs + 1
    /\ jobs' = Started(nSyncs + 1, StartJob("", userID, billingDay, records))
    /\ overlapped' = Overlapping(userID)
    /\ UNCHANGED << mode, call, rebuild, clock, billing_day, last_sync_at, usage_records,
                    usage_summary, writer, req, response, pending, timers,
                    faults, schedLog, burst, updCalls >>

\* db.RebuildCycleSummaries(userID, billingDay)
RebuildCall(userID, billingDay) ==
    /\ rebuild.n < MaxRebuilds
    /\ ~RebuildActive
    /\ ServerIdle
    /\ rebuild' = [pc |-> "delete", n |-> rebuild.n + 1, userID |-> userID,
                   billingDay |-> billingDay, cycles |-> {}]
    /\ UNCHANGED << overlapped, mode, call, clock, billing_day, last_sync_at, usage_records,
                    usage_summary, writer, req, response, pending, timers, jobs,
                    nSyncs, faults, schedLog, burst, updCalls >>

\* SpecAnchor: after syncs of u1, UpdateSummaries and RebuildCycleSummaries
\* are called with billing days inside and outside 1..31, one call at a time
NextAnchor ==
    \/ /\ nSyncs < MaxSyncs
       /\ ~RebuildActive
       /\ \E records \in FrameBatches("u1") : APISyncBegin("h1", "u1", records)
    \/ InsertExec("h1")
    \/ InsertCommit("h1")
    \/ APISyncSummaries("h1")
    \/ APISyncFinish("h1")
    \/ /\ ~RebuildActive
       /\ \E billingDay \in CallAnchors : \E records \in FrameBatches("u1") :
              UpdateSummariesCall("u1", billingDay, records)
    \/ \E n \in Running : UpdateSummariesExec(n)
    \/ \E n \in Running : UpdateSummariesCommit(n)
    \/ \E billingDay \in CallAnchors : RebuildCall("u1", billingDay)
    \/ RebuildDelete
    \/ RebuildQuery
    \/ RebuildInsert

SpecAnchor == Init /\ [][NextAnchor]_vars

\* the table has the day row and the month row of the time t
HasDayAndMonth(table, userID, t) ==
    /\ \E row \in table :
          PrimaryKey(row) = <<userID, "day", DayKey(t)>>
    /\ \E row \in table :
          PrimaryKey(row) = <<userID, "month", MonthKey(t)>>

\* C35: with a billing day outside 1..31, UpdateSummaries returns without
\* error having written the day and month rows of its records and no cycle
\* row, and RebuildCycleSummaries returns without error after its DELETE,
\* which removes all cycle rows of the user and nothing else.
C35_OutsideAnchorDisabled ==
    [][ /\ \A n \in Running \ Running' :
              jobs[n].billingDay \notin 1..31 =>
                  /\ faults' = faults
                  /\ \A row \in Changed(usage_summary, usage_summary') :
                        row.period_type # "cycle"
                  /\ \A i \in 1..Len(jobs[n].records) :
                        HasDayAndMonth(usage_summary', jobs[n].userID,
                                       jobs[n].records[i].Timestamp)
        /\ (rebuild.pc = "delete" /\ rebuild' # rebuild
            /\ rebuild.billingDay \notin 1..31) =>
              /\ rebuild'.pc = "done"
              /\ usage_summary' =
                    usage_summary \ CycleRowsOf(usage_summary, rebuild.userID)
      ]_vars

\* RebuildCycleSummaries with a billing day above 31 has removed the cycle
\* rows written before, and an UpdateSummaries call with a billing day
\* below 1 has executed its statements
C35_Witness ==
    /\ rebuild.pc = "done"
    /\ rebuild.billingDay > 31
    /\ CycleRowsOf(usage_summary, "u1") = {}
    /\ DayRows(usage_summary, "u1") # {}
    /\ \E n \in Running :
          /\ jobs[n].billingDay < 0
          /\ jobs[n].locked
          /\ jobs[n].todo = {}

(***************************************************************************)
(* The cycle of a date and the billing period of today                     *)
(***************************************************************************)
\* the cycle rows GetUsageByBillingCycle leaves out of its query at the
\* time Now
LeftOut(userID, billingDay) ==
    LET cycle == GetBillingPeriod(billingDay, Now)
    IN CycleRowsOf(usage_summary, userID)
           \ CompletedCycles(usage_summary, userID,
                             CycleKey(cycle.start, cycle.end))

InCycle(t, c) ==
    Unix(c.period_start) <= Unix(t) /\ Unix(t) <= Unix(c.period_end)

\* the dates tried in the month of t, the month before and the month after
Around(t) ==
    { x \in Dates :
        <<x.y, x.m>> \in {MonthBefore(t), <<t.y, t.m>>, MonthAfter(t)} }

\* C37: for every billing day in 1..31 the billing cycles partition the
\* calendar: the cycle computed for a date holds the date, the dates it
\* holds (among those of the months around) are those for which it is
\* computed, and the second after its end
\* is the start of the cycle computed for that second, as the second before
\* its start is the end of the cycle before; for the cycles of
\* UpdateSummaries and for the periods of GetBillingPeriod.
C37_CyclesPartition ==
    (call.fn = "GetBillingPeriod" /\ call.billingDay \in 1..31) =>
        LET b == call.billingDay
            c == CyclePeriod(call.now, b)
            next == NextMidnight(c.period_end)
            prev == LastSecondBefore(c.period_start)
        IN /\ InCycle(call.now, c)
           /\ \A t \in Around(call.now) \cup {c.period_start, c.period_end} :
                 InCycle(t, c) <=> CyclePeriod(t, b) = c
           /\ CyclePeriod(next, b).period_start = next
           /\ CyclePeriod(prev, b).period_end = prev
           /\ GetBillingPeriod(b, call.period.start) = call.period
           /\ GetBillingPeriod(b, call.period.end) = call.period
           /\ GetBillingPeriod(b, NextMidnight(call.period.end)).start
                 = NextMidnight(call.period.end)
           /\ GetBillingPeriod(b, LastSecondBefore(call.period.start)).end
                 = LastSecondBefore(call.period.start)

\* billing day 31 on 31 December: the cycle ends on 30 January of the next
\* year and the next one starts on 31 January
C37_Witness ==
    /\ call.fn = "GetBillingPeriod"
    /\ call.billingDay = 31
    /\ call.now = At(2023, 12, 31, 43200)
    /\ CyclePeriod(call.now, 31).period_end = At(2024, 1, 30, 86399)
    /\ CyclePeriod(At(2024, 1, 31, 0), 31).period_end = At(2024, 2, 28, 86399)

(***************************************************************************)
(* RebuildCycleSummaries against the re-sum of UpdateSummaries             *)
(***************************************************************************)
\* the cycle rows UpdateSummaries writes for the stored events of the user:
\* for a cycle with events, its key, its bounds and the re-sum of the raw
\* events between its bounds
ResummedCycles(userID, billingDay) ==
    { SummaryRow(userID, c, Resum(usage_records, userID, c)) :
        c \in EventCycles(usage_records, userID, billingDay) }

\* C38: when the day summaries of the user are up to date, the cycle rows
\* RebuildCycleSummaries leaves, summed from the day summaries, are rows
\* that UpdateSummaries writes for the same billing day by re-summing the
\* raw events (same key, bounds, counts and cost), one for every key of a
\* cycle with events.
C38_RebuildEqualsResum ==
    [][ (RebuildCompletes /\ DaySummariesUpToDate(rebuild.userID)) =>
            /\ CycleRowsOf(usage_summary', rebuild.userID)
                   \subseteq ResummedCycles(rebuild.userID, rebuild.billingDay)
            /\ \A c \in EventCycles(usage_records, rebuild.userID,
                                    rebuild.billingDay) :
                  \E row \in CycleRowsOf(usage_summary', rebuild.userID) :
                      row.period_key = c.period_key
      ]_vars

(***************************************************************************)
(* Two users: every operation of the server, for either user               *)
(***************************************************************************)
\* the billing-day form each user submits: u1 clears the anchor, u2 sets it
\* to the first of the month
UserForm(u) ==
    IF u = "u1" THEN [empty |-> TRUE, value |-> 0]
    ELSE [empty |-> FALSE, value |-> 1]

\* both users sync through the debouncer, one request at a time, either of
\* them changes the billing day, and any database call may fail
NextUsers ==
    \/ /\ nSyncs < MaxSyncs
       /\ \E u \in Users :
             \E records \in ScheduleBatches(u) : APISyncBegin("h1", u, records)
    \/ InsertExec("h1")
    \/ InsertCommit("h1")
    \/ InsertFail("h1")
    \/ APISyncSummaries("h1")
    \/ APISyncFinish("h1")
    \/ \E t \in timers : Flush(t)
    \/ \E n \in Running : UpdateSummariesExec(n)
    \/ \E n \in Running : UpdateSummariesCommit(n)
    \/ \E n \in Running : UpdateSummariesFail(n)
    \/ /\ rebuild.n < MaxRebuilds
       /\ \E u \in Users : UpdateBillingDayBegin(u, UserForm(u))
    \/ RebuildDelete
    \/ RebuildQuery
    \/ RebuildInsert
    \/ RebuildFail

SpecUsers == InitDebounce /\ [][NextUsers]_vars

\* what the server stores for one user: events, summary rows, anchor and
\* pending-recompute record
StoredFor(events, summary, anchors, pend, userID) ==
    << { x \in events : x.user_id = userID },
       { x \in summary : x.user_id = userID },
       anchors[userID], pend[userID] >>

Before39(userID) ==
    StoredFor(usage_records, usage_summary, billing_day, pending, userID)

After39(userID) ==
    StoredFor(usage_records', usage_summary', billing_day', pending', userID)

\* the users an operation taking this step acts for: the user of a request
\* that moves, of a timer that fires, of an UpdateSummaries call that
\* moves, of the billing-day change that moves
ActsFor ==
    { req[h].userID : h \in { g \in Handlers : req'[g] # req[g]
                                                /\ req[g].pc # "idle" } }
    \cup { t.userID : t \in timers \ timers' }
    \cup { jobs[n].userID : n \in { k \in Running :
                                      k \notin DOMAIN jobs' \/ jobs'[k] # jobs[k] } }
    \cup (IF rebuild' # rebuild THEN { rebuild'.userID, rebuild.userID } \ {""}
          ELSE {})

\* C39: a step of an operation performed for one user (insert, Schedule,
\* flush, UpdateSummaries, RebuildCycleSummaries, anchor change), whether it
\* succeeds or fails, leaves the stored events, summary rows, anchor and
\* pending record of every other user as they were: only the data of a
\* user the step acts for can change, and at most one user's data changes
\* in a step.
C39_OtherUsersUntouched ==
    [][ /\ \A u \in Users : After39(u) # Before39(u) => u \in ActsFor
        /\ \A u, v \in Users :
              (After39(u) # Before39(u) /\ After39(v) # Before39(v)) => u = v
      ]_vars

\* both users have events, one of them has summary rows too, an operation
\* has failed and a billing-day change has been carried through
C39_Witness ==
    /\ \A u \in Users : Before39(u)[1] # {}
    /\ \E u \in Users : Before39(u)[2] # {}
    /\ Len(faults) > 0
    /\ rebuild.pc = "done"

====
